---- MODULE Spec2Model ----
(***************************************************************************)
(* s3glob: glob parser, prefix planner, enumeration pipeline and download  *)
(* orchestrator, as state machines.                                        *)
(*                                                                         *)
(* Strings are sequences of one-character strings, so <<"a", "/">> is the  *)
(* key "a/".  A position i in a string s means "i characters consumed".    *)
(***************************************************************************)
EXTENDS Integers, Sequences, FiniteSets, TLC

(***************************************************************************)
(* Characters and strings                                                  *)
(***************************************************************************)

\* --delimiter, default "/" (the model fixes the default)
Delimiter == "/"

\* const GLOB_CHARS
GLOB_CHARS == {"*", "?", "[", "{"}

\* The Unicode scalar value of the characters the model uses (char ordering
\* is what `end <= start`, `start..=end` and BTreeSet iteration compare).
CharCode(c) ==
    CASE c = "!" -> 33 [] c = "*" -> 42 [] c = "," -> 44 [] c = "-" -> 45
      [] c = "." -> 46 [] c = "/" -> 47 [] c = "?" -> 63 [] c = "[" -> 91
      [] c = "\\" -> 92 [] c = "]" -> 93 [] c = "a" -> 97 [] c = "b" -> 98
      [] c = "c" -> 99 [] c = "{" -> 123 [] c = "}" -> 125

Chars == {"!", "*", ",", "-", ".", "/", "?", "[", "\\", "]", "a", "b", "c", "{", "}"}

\* str::starts_with / str::ends_with
StartsWith(s, p) == Len(p) <= Len(s) /\ SubSeq(s, 1, Len(p)) = p
EndsWith(s, p) == Len(p) <= Len(s) /\ SubSeq(s, Len(s) - Len(p) + 1, Len(s)) = p

\* s[n..]: the string without its first n characters
DropFirst(s, n) == SubSeq(s, n + 1, Len(s))

\* Ord for String: lexicographic on scalar values
RECURSIVE StrLess(_, _)
StrLess(s, t) ==
    IF t = <<>> THEN FALSE
    ELSE IF s = <<>> THEN TRUE
    ELSE IF CharCode(s[1]) # CharCode(t[1]) THEN CharCode(s[1]) < CharCode(t[1])
    ELSE StrLess(Tail(s), Tail(t))

\* Iteration order of a BTreeSet<String>: ascending
RECURSIVE SortedSeq(_)
SortedSeq(S) ==
    IF S = {} THEN <<>>
    ELSE LET m == CHOOSE x \in S : \A y \in S \ {x} : StrLess(x, y)
         IN <<m>> \o SortedSeq(S \ {m})

SeqToSet(q) == {q[i] : i \in DOMAIN q}

RECURSIVE Flatten(_)
Flatten(qq) == IF qq = <<>> THEN <<>> ELSE Head(qq) \o Flatten(Tail(qq))

\* regex::escape: a backslash before every regex meta character
RegexMeta == {"\\", ".", "+", "*", "?", "(", ")", "|", "[", "]", "{", "}", "^", "$", "#", "&", "-", "~"}
RECURSIVE regex_escape(_)
regex_escape(s) ==
    IF s = <<>> THEN <<>>
    ELSE (IF Head(s) \in RegexMeta THEN <<"\\", Head(s)>> ELSE <<Head(s)>>)
         \o regex_escape(Tail(s))

\* fn prefix_join: drop one "/" when prefix ends and alt starts with "/"
prefix_join(prefix, alt) ==
    IF EndsWith(prefix, <<"/">>) /\ StartsWith(alt, <<"/">>)
    THEN prefix \o DropFirst(alt, 1)
    ELSE prefix \o alt

(***************************************************************************)
(* enum Glob and its regex                                                 *)
(* A Glob is a record: kind in {"Any", "Choice", "Recursive"}, raw, the    *)
(* choices `allowed`, and for Any `negated` (not is Some) with the         *)
(* excluded characters `not`.                                              *)
(***************************************************************************)

GlobAny(raw) == [kind |-> "Any", raw |-> raw, allowed |-> <<>>, negated |-> FALSE, not |-> <<>>]
GlobNeg(raw, chars) == [kind |-> "Any", raw |-> raw, allowed |-> <<>>, negated |-> TRUE, not |-> chars]
GlobChoice(raw, allowed) == [kind |-> "Choice", raw |-> raw, allowed |-> allowed, negated |-> FALSE, not |-> <<>>]
GlobRecursive == [kind |-> "Recursive", raw |-> <<"*", "*">>, allowed |-> <<>>, negated |-> FALSE, not |-> <<>>]
GlobSyntheticAny == [kind |-> "SyntheticAny", raw |-> <<>>, allowed |-> <<>>, negated |-> FALSE, not |-> <<>>]

is_negated_Never(g) == FALSE

is_choice(g) == g.kind = "Choice"
is_negated(g) == g.kind = "Any" /\ g.negated
is_recursive_Never(g) == FALSE
is_recursive(g) == g.kind = "Recursive"

pattern_len_RecursiveOne(g) == IF g.kind = "Recursive" THEN 1 ELSE Len(g.raw)

\* Glob::pattern_len
pattern_len(g) == IF g.kind = "Recursive" THEN 2 ELSE Len(g.raw)

combine_with_RightMajor(self, other) ==
    LET n == Len(self.allowed)
        cnt == Len(other.allowed) * n
    IN GlobChoice(self.raw,
                  [k \in 1..cnt |->
                      prefix_join(self.allowed[((k - 1) % n) + 1],
                                  other.allowed[((k - 1) \div n) + 1])])

\* Glob::combine_with: cross product, left-major, joined with prefix_join
combine_with(self, other) ==
    LET n == Len(other.allowed)
        cnt == Len(self.allowed) * n
    IN GlobChoice(self.raw,
                  [k \in 1..cnt |->
                      prefix_join(self.allowed[((k - 1) \div n) + 1],
                                  other.allowed[((k - 1) % n) + 1])])

\* A regex fragment is modelled by the positions it can reach: the set of
\* positions j such that s[i..j] is matched by the fragment Glob::re_string
\* builds for g.  Choice: "(a|b)" of escaped literals; "?": "."; "*":
\* "[^/]*"; negated class: "[^chars]"; Recursive: ".*".
ChoiceEnds(allowed, s, i) ==
    {i + Len(allowed[n]) : n \in {m \in DOMAIN allowed :
        /\ i + Len(allowed[m]) <= Len(s)
        /\ SubSeq(s, i + 1, i + Len(allowed[m])) = allowed[m]}}

re_ends(g, s, i) ==
    CASE g.kind = "Choice" -> ChoiceEnds(g.allowed, s, i)
      [] g.kind = "Recursive" -> i..Len(s)
      [] g.kind = "Any" /\ g.negated ->
            IF i < Len(s) /\ s[i + 1] \notin SeqToSet(g.not) THEN {i + 1} ELSE {}
      [] g.kind = "Any" /\ ~g.negated /\ g.raw = <<"?">> ->
            IF i < Len(s) THEN {i + 1} ELSE {}
      [] g.kind = "Any" /\ ~g.negated /\ g.raw # <<"?">> ->
            {j \in i..Len(s) : \A k \in (i + 1)..j : s[k] # Delimiter}
      [] g.kind = "SyntheticAny" ->
            {j \in i..Len(s) : \A k \in (i + 1)..j : s[k] # Delimiter}

\* Positions reached after matching parts[k..] in order, from the positions `from`
RECURSIVE MatchFrom(_, _, _, _)
MatchFrom(parts, k, s, from) ==
    IF k > Len(parts) THEN from
    ELSE MatchFrom(parts, k + 1, s, UNION {re_ends(parts[k], s, i) : i \in from})

\* Regex::new("^" + fragments).is_match(s): anchored at the start only
RegexIsMatch(parts, s) == MatchFrom(parts, 1, s, {0}) # {}

\* The anchored compiled pattern "^fragments$"
RegexFullMatch(parts, s) == Len(s) \in MatchFrom(parts, 1, s, {0})

(***************************************************************************)
(* Glob parser: parse_pattern and S3GlobMatcher::parse                     *)
(***************************************************************************)

ParseOk(g) == [ok |-> TRUE, glob |-> g, err |-> ""]
ParseErr(msg) == [ok |-> FALSE, glob |-> GlobRecursive, err |-> msg]

\* The '{' arm: `s` is the pattern text from the "{" on, i the next index
RECURSIVE parse_alternation(_, _, _, _, _)
parse_alternation(s, i, raw, alt, alternatives) ==
    IF i > Len(s) THEN ParseErr("Alternation has no closing brace")
    ELSE LET chr == s[i]
             raw2 == Append(raw, chr)
         IN IF chr = "," THEN parse_alternation(s, i + 1, raw2, <<>>, Append(alternatives, alt))
            ELSE IF chr = "}" THEN ParseOk(GlobChoice(raw2, Append(alternatives, alt)))
            ELSE parse_alternation(s, i + 1, raw2, Append(alt, chr), alternatives)

RangeChars_Exclusive(start, end) ==
    LET q == SortedSeq({<<c>> : c \in {d \in Chars :
                 CharCode(start) <= CharCode(d) /\ CharCode(d) < CharCode(end)}})
    IN [k \in DOMAIN q |-> q[k][1]]

\* `for c in start..=end`: every character from start to end, ascending
\* (of the characters the model knows)
RangeChars(start, end) ==
    LET q == SortedSeq({<<c>> : c \in {d \in Chars :
                 CharCode(start) <= CharCode(d) /\ CharCode(d) <= CharCode(end)}})
    IN [k \in DOMAIN q |-> q[k][1]]

DashStartsRange_Never(neg, n) == FALSE

\* The guard of the '-' arm: a dash directly after "[" or "[!" is a member
DashStartsRange(neg, n) == (~neg /\ n # 2) \/ (neg /\ n # 3)

RangeInvalid_EndBelowStart(start, end) == CharCode(end) < CharCode(start)

\* `if end <= start`
RangeInvalid(start, end) == CharCode(end) <= CharCode(start)

\* The '[' arm
RECURSIVE parse_class(_, _, _, _, _)
parse_class(s, i, raw, alts, neg) ==
    IF i > Len(s)
    THEN IF raw = <<"[", "]">> THEN ParseErr("Empty character class")
         ELSE ParseErr("Alternation has no closing bracket")
    ELSE LET chr == s[i]
             raw2 == Append(raw, chr)
             n == Len(raw2)
         IN IF chr = "!" /\ n = 2 THEN parse_class(s, i + 1, raw2, alts, TRUE)
            ELSE IF chr = "]" /\ (n = 2 \/ (neg /\ n = 3))
            THEN parse_class(s, i + 1, raw2, Append(alts, chr), neg)
            ELSE IF chr = "-" /\ DashStartsRange(neg, n)
            THEN IF i + 1 > Len(s) THEN ParseErr("Character class is not closed")
                 ELSE IF s[i + 1] = "]" THEN ParseErr("Range is not closed")
                 ELSE LET start == alts[Len(alts)]
                          end == s[i + 1]
                      IN IF RangeInvalid(start, end)
                         THEN ParseErr("Range is invalid (end <= start)")
                         ELSE parse_class(s, i + 2, Append(raw2, end),
                                  SubSeq(alts, 1, Len(alts) - 1) \o RangeChars(start, end),
                                  neg)
            ELSE IF chr = "]"
            THEN ParseOk(IF neg THEN GlobNeg(raw2, alts)
                         ELSE GlobChoice(raw2, [k \in DOMAIN alts |-> <<alts[k]>>]))
            ELSE parse_class(s, i + 1, raw2, Append(alts, chr), neg)

\* fn parse_pattern: `s` starts with a glob character
parse_pattern(s) ==
    CASE s[1] = "?" -> ParseOk(GlobAny(<<"?">>))
      [] s[1] = "*" -> IF Len(s) >= 2 /\ s[2] = "*" THEN ParseOk(GlobRecursive)
                       ELSE ParseOk(GlobAny(<<"*">>))
      [] s[1] = "{" -> parse_alternation(s, 2, <<"{">>, <<>>, <<>>)
      [] s[1] = "[" -> parse_class(s, 2, <<"[">>, <<>>, FALSE)

\* S3GlobMatcher::parse, the tokenising loop
RECURSIVE parse_loop(_, _)
parse_loop(remaining, parts) ==
    IF remaining = <<>> THEN [ok |-> TRUE, parts |-> parts, err |-> ""]
    ELSE LET idxs == {i \in DOMAIN remaining : remaining[i] \in GLOB_CHARS}
         IN IF idxs = {}
            THEN [ok |-> TRUE, parts |-> Append(parts, GlobChoice(remaining, <<remaining>>)),
                  err |-> ""]
            ELSE LET idx == CHOOSE i \in idxs : \A j \in idxs : i <= j
                     next_part == SubSeq(remaining, 1, idx - 1)
                     parts1 == IF next_part # <<>>
                               THEN Append(parts, GlobChoice(next_part, <<next_part>>))
                               ELSE parts
                     gl == parse_pattern(DropFirst(remaining, idx - 1))
                 IN IF ~gl.ok THEN [ok |-> FALSE, parts |-> <<>>, err |-> gl.err]
                    ELSE parse_loop(DropFirst(remaining, idx - 1 + pattern_len(gl.glob)),
                                    Append(parts1, gl.glob))

\* S3GlobMatcher::parse, the merge pass over adjacent choices
RECURSIVE merge_parts(_, _)
merge_parts(parts, new_parts) ==
    IF parts = <<>> THEN new_parts
    ELSE LET part == Head(parts)
             n == Len(new_parts)
         IN IF n > 0 /\ is_choice(new_parts[n]) /\ is_choice(part)
            THEN merge_parts(Tail(parts), [new_parts EXCEPT ![n] = combine_with(@, part)])
            ELSE merge_parts(Tail(parts), Append(new_parts, part))

\* S3GlobMatcher::parse
parse(raw) ==
    LET p == parse_loop(raw, <<>>)
    IN IF p.ok THEN [ok |-> TRUE, parts |-> merge_parts(p.parts, <<>>), err |-> ""]
       ELSE p

(***************************************************************************)
(* The matcher S3GlobMatcher::is_match uses: globset::Glob::new(raw) with  *)
(* the crate's default options (literal_separator = false, so "*" and "?"  *)
(* also match "/"; empty alternates are dropped).  The model covers        *)
(* alternations and classes whose members are plain characters.            *)
(***************************************************************************)

GTok(t) == [t |-> t, chars |-> <<>>, neg |-> FALSE, alts |-> <<>>]
GLit(c) == [t |-> "Lit", chars |-> <<c>>, neg |-> FALSE, alts |-> <<>>]
GClass(neg, chars) == [t |-> "Class", chars |-> chars, neg |-> neg, alts |-> <<>>]
GAlt(alts) == [t |-> "Alt", chars |-> <<>>, neg |-> FALSE, alts |-> alts]

\* globset's parse_star, for a "**" found at s[i], s[i+1]; returns the
\* tokens and the index of the next character to read
globset_star2(s, i, toks) ==
    LET two == [toks |-> toks \o <<GTok("ZeroOrMore"), GTok("ZeroOrMore")>>, next |-> i + 2]
        peekSep == i + 2 <= Len(s) /\ s[i + 2] = "/"
        peekEnd == i + 2 > Len(s)
        last == toks[Len(toks)]
        front == SubSeq(toks, 1, Len(toks) - 1)
    IN IF toks = <<>>
       THEN IF ~peekEnd /\ ~peekSep THEN two
            ELSE [toks |-> <<GTok("RecursivePrefix")>>, next |-> i + 3]
       ELSE IF s[i - 1] # "/" THEN two
       ELSE IF ~peekEnd /\ ~peekSep THEN two
       ELSE [toks |-> front \o
                <<IF last.t \in {"RecursivePrefix", "RecursiveSuffix"} THEN last
                  ELSE IF peekEnd THEN GTok("RecursiveSuffix")
                  ELSE GTok("RecursiveZeroOrMore")>>,
             next |-> i + 3]

RECURSIVE globset_tokens(_, _, _)
globset_tokens(s, i, toks) ==
    IF i > Len(s) THEN toks
    ELSE LET c == s[i]
             rest == DropFirst(s, i - 1)
         IN CASE c = "?" -> globset_tokens(s, i + 1, Append(toks, GTok("Any")))
              [] c = "*" /\ ~(i + 1 <= Len(s) /\ s[i + 1] = "*") ->
                    globset_tokens(s, i + 1, Append(toks, GTok("ZeroOrMore")))
              [] c = "*" /\ (i + 1 <= Len(s) /\ s[i + 1] = "*") ->
                    LET r == globset_star2(s, i, toks)
                    IN globset_tokens(s, r.next, r.toks)
              [] c = "[" ->
                    LET g == parse_class(rest, 2, <<"[">>, <<>>, FALSE).glob
                    IN globset_tokens(s, i + Len(g.raw),
                           Append(toks, IF g.negated THEN GClass(TRUE, g.not)
                                        ELSE GClass(FALSE, Flatten(g.allowed))))
              [] c = "{" ->
                    LET g == parse_alternation(rest, 2, <<"{">>, <<>>, <<>>).glob
                    IN globset_tokens(s, i + Len(g.raw),
                           Append(toks, GAlt(SelectSeq(g.allowed, LAMBDA a : a # <<>>))))
              [] OTHER -> globset_tokens(s, i + 1, Append(toks, GLit(c)))

\* Positions the regex of one globset token reaches from position i
globset_ends(tok, s, i) ==
    CASE tok.t = "Lit" -> IF i < Len(s) /\ s[i + 1] = tok.chars[1] THEN {i + 1} ELSE {}
      [] tok.t = "Any" -> IF i < Len(s) THEN {i + 1} ELSE {}
      [] tok.t = "ZeroOrMore" -> i..Len(s)
      [] tok.t = "RecursivePrefix" -> {i} \cup {j \in (i + 1)..Len(s) : s[j] = "/"}
      [] tok.t = "RecursiveSuffix" ->
            IF i < Len(s) /\ s[i + 1] = "/" THEN (i + 1)..Len(s) ELSE {}
      [] tok.t = "RecursiveZeroOrMore" ->
            IF i < Len(s) /\ s[i + 1] = "/"
            THEN {i + 1} \cup {j \in (i + 2)..Len(s) : s[j] = "/"} ELSE {}
      [] tok.t = "Class" ->
            IF i < Len(s) /\ ((s[i + 1] \in SeqToSet(tok.chars)) # tok.neg) THEN {i + 1} ELSE {}
      [] tok.t = "Alt" -> IF tok.alts = <<>> THEN {i} ELSE ChoiceEnds(tok.alts, s, i)

RECURSIVE GlobsetFrom(_, _, _, _)
GlobsetFrom(toks, k, s, from) ==
    IF k > Len(toks) THEN from
    ELSE GlobsetFrom(toks, k + 1, s, UNION {globset_ends(toks[k], s, i) : i \in from})

\* S3GlobMatcher::is_match: self.glob.is_match(path); a glob that is only
\* "**" matches everything
is_match(raw, path) ==
    LET toks == globset_tokens(raw, 1, <<>>)
    IN IF toks = <<GTok("RecursivePrefix")>> THEN TRUE
       ELSE Len(path) \in GlobsetFrom(toks, 1, path, {0})

(***************************************************************************)
(* The object store (Engine): delimited scan and existence check           *)
(***************************************************************************)

\* Index of the first delimiter in s, 0 if there is none
FirstDelim(s) ==
    LET ds == {i \in DOMAIN s : s[i] = Delimiter}
    IN IF ds = {} THEN 0 ELSE CHOOSE i \in ds : \A j \in ds : i <= j

\* list_objects_v2(prefix, delimiter): the common prefixes ...
CommonPrefixes(keys, prefix) ==
    {SubSeq(k, 1, Len(prefix) + FirstDelim(DropFirst(k, Len(prefix)))) :
        k \in {x \in keys : StartsWith(x, prefix) /\ FirstDelim(DropFirst(x, Len(prefix))) > 0}}

\* ... and the keys directly under the prefix
Contents(keys, prefix) ==
    {x \in keys : StartsWith(x, prefix) /\ FirstDelim(DropFirst(x, Len(prefix))) = 0}

\* Engine::scan_prefixes: ScanResult { prefixes, objects }, which
\* find_prefixes adds to the working set (prefixes, then object keys)
scan_prefixes(keys, prefix) ==
    SortedSeq(CommonPrefixes(keys, prefix)) \o SortedSeq(Contents(keys, prefix))

\* One existence probe: list_objects_v2(prefix, max_keys = 1).key_count > 0
PrefixExists(keys, prefix) == \E k \in keys : StartsWith(k, prefix)

\* Engine::check_prefixes: the BTreeSet of the prefixes that exist
check_prefixes(keys, ps) == SortedSeq({p \in SeqToSet(ps) : PrefixExists(keys, p)})

(***************************************************************************)
(* Prefix planner: S3GlobMatcher::find_prefixes, one loop iteration        *)
(***************************************************************************)

\* take_while_inclusive(|c| c != delimiter): up to and including the first delimiter
UpToDelim(choice) == SubSeq(choice, 1, FirstDelim(choice))

\* The `filters` set of the filter-and-append branch.  The strings are put
\* in the regex escaped (or are the bare delimiter), so as a regex each one
\* matches itself: the model keeps the literal text.
ChoiceFilters(allowed) ==
    {IF StartsWith(allowed[n], <<Delimiter>>) THEN <<Delimiter>>
     ELSE IF FirstDelim(allowed[n]) > 0 THEN UpToDelim(allowed[n])
     ELSE allowed[n] : n \in DOMAIN allowed}

\* The `appends` set: the text after the first delimiter, bare when the
\* choice starts with the delimiter and regex-escaped otherwise
ChoiceAppends(allowed) ==
    {DropFirst(allowed[n], 1) :
        n \in {m \in DOMAIN allowed :
                 StartsWith(allowed[m], <<Delimiter>>) /\ Len(allowed[m]) > 1}}
    \cup
    {regex_escape(DropFirst(allowed[n], FirstDelim(allowed[n]))) :
        n \in {m \in DOMAIN allowed :
                 /\ ~StartsWith(allowed[m], <<Delimiter>>)
                 /\ FirstDelim(allowed[m]) > 0
                 /\ FirstDelim(allowed[m]) < Len(allowed[m])}}

\* prefixes x alts, prefix-major, joined with prefix_join
CrossJoin(ps, alts) ==
    LET n == Len(alts)
    IN [k \in 1..(Len(ps) * n) |->
            prefix_join(ps[((k - 1) \div n) + 1], alts[((k - 1) % n) + 1])]

\* The Glob::Choice arm when prefixes.len() == 1
SimpleAppend(keys, ps, allowed) == check_prefixes(keys, CrossJoin(ps, allowed))

\* The Glob::Choice arm otherwise: new_prefixes before the existence
\* check; parts[1..i-1] is regex_so_far
FilterAndAppendCandidates(ps, parts, i) ==
    LET allowed == parts[i].allowed
        sofar == SubSeq(parts, 1, i - 1)
        filters == SortedSeq(ChoiceFilters(allowed))
        appends == SortedSeq(ChoiceAppends(allowed))
        filter(p) == RegexIsMatch(Append(sofar, GlobChoice(<<>>, filters)), p)
        append_matcher(p) == RegexIsMatch(SubSeq(parts, 1, i), p)
        one(p) == IF ~filter(p) THEN <<>>
                  ELSE IF appends # <<>> /\ ~append_matcher(p) THEN CrossJoin(<<p>>, appends)
                  ELSE <<p>>
    IN IF filters = <<>> THEN CrossJoin(ps, appends)
       ELSE Flatten([k \in DOMAIN ps |-> one(ps[k])])

\* The Glob::Choice arm otherwise, with the existence check when there
\* are appends
FilterAndAppend(keys, ps, parts, i) ==
    IF ChoiceAppends(parts[i].allowed) # {}
    THEN check_prefixes(keys, FilterAndAppendCandidates(ps, parts, i))
    ELSE FilterAndAppendCandidates(ps, parts, i)

\* The iteration for parts[i] calls engine.check_prefixes
NeedsCheck(ps, parts, i) ==
    /\ parts[i].kind = "Choice"
    /\ Len(ps) = 1 \/ ChoiceAppends(parts[i].allowed) # {}

\* The prefixes the iteration hands to engine.check_prefixes
CheckCandidates(ps, parts, i) ==
    IF Len(ps) = 1 THEN CrossJoin(ps, parts[i].allowed)
    ELSE FilterAndAppendCandidates(ps, parts, i)

scan_might_help_AlsoLast(parts, i) == ~(i > 1 /\ parts[i - 1].kind = "Any")

\* The Glob::Any arm asks the engine only when the previous part is not an
\* Any and this is not the last part
scan_might_help(parts, i) ==
    ~(i > 1 /\ parts[i - 1].kind = "Any") /\ i # Len(parts)

\* The Glob::Any arm: scan, then the negated-class filter
AnyStep(keys, ps, parts, i) ==
    LET scanned == IF scan_might_help(parts, i)
                   THEN Flatten([k \in DOMAIN ps |-> scan_prefixes(keys, ps[k])])
                   ELSE ps
    IN IF is_negated(parts[i])
       THEN SelectSeq(scanned, LAMBDA p : RegexIsMatch(SubSeq(parts, 1, i), p))
       ELSE scanned

\* One iteration of the loop of find_prefixes for parts[i] (not Recursive)
PlanPart(keys, ps, parts, i) ==
    IF parts[i].kind = "Any" THEN AnyStep(keys, ps, parts, i)
    ELSE IF Len(ps) = 1 THEN SimpleAppend(keys, ps, parts[i].allowed)
    ELSE FilterAndAppend(keys, ps, parts, i)

(***************************************************************************)
(* A run of `s3glob ls`: planning, then the enumeration dispatch of run()  *)
(***************************************************************************)

\* Bounds of the model
MaxTokens == 2
MaxKeys == 2
\* --max-parallelism of the modelled runs
MaxParallelism == 2
\* Store requests that fail in one run
MaxFaults == 1

\* The pieces the modelled patterns are made of
Tokens ==
    { <<"a">>, <<"a", "/">>, <<"*">>, <<"*", "*">>, <<"[", "!", "a", "]">>,
      <<"{", "a", "/", "b", ",", "b", "/", "a", "}">> }

RECURSIVE TokenSeqs(_)
TokenSeqs(n) ==
    IF n = 0 THEN {<<>>}
    ELSE LET shorter == TokenSeqs(n - 1)
         IN shorter \cup {q \o t : q \in shorter, t \in Tokens}

\* Patterns with an Any segment that follows an Any segment and is not the
\* last segment
DoubleAnyPatterns ==
    {<<"[", "!", "a", "]", "*", "/", "b">>, <<"*", "[", "!", "a", "]", "a">>}

\* The raw patterns of the modelled runs: one to MaxTokens tokens, the
\* malformed ones that end in an unclosed "[", and the ones above
RawPatterns ==
    (TokenSeqs(MaxTokens) \ {<<>>}) \cup {q \o <<"[">> : q \in TokenSeqs(MaxTokens - 1)}
        \cup DoubleAnyPatterns

\* The keys a bucket may hold
AllKeys ==
    { <<"a">>, <<"b">>, <<"b", "a">>, <<"a", "/", "a">>, <<"a", "/", "b">>,
      <<"b", "/", "b">>, <<"a", "/", "a", "/", "b">> }

Stores == {K \in SUBSET AllKeys : Cardinality(K) <= MaxKeys}

VARIABLES
    raw,          \* the pattern given on the command line
    parts,        \* S3GlobMatcher.parts
    keys,         \* the keys stored in the bucket
    pc,           \* where run() is: "client", "parse", "plan", "check",
                  \* "spawn", "recv", "done" (Ok), "failed" (Err), "panic"
    err,          \* what made run() return Err: "client", "parse", "plan"
    bucket_calls, \* head_bucket requests sent by create_s3_client
    faults,       \* store requests that have failed so far
    part_i,       \* find_prefixes: index of the next part
    prefixes,     \* find_prefixes: the working set; then presult.prefixes
    is_complete,  \* matcher.is_complete()
    scan_calls,   \* the (prefix, delimiter) scans the engine served
    ck_todo,      \* check_prefixes: the prefixes to check
    ck_tasks,     \* check_prefixes: the spawned probes: "run" or "done"
    ck_chan,      \* check_prefixes: the bounded channel of Result<String>
    ck_out,       \* check_prefixes: new_prefixes
    ck_permits,   \* check_prefixes: free permits of its semaphore
    tasks,        \* the spawned enumeration tasks: "head", "list", "done" or "failed"
    calls,        \* per task, the store calls it made
    chan,         \* the unbounded channel of Vec<PrefixResult>
    received,     \* the results run() has received, in order
    permits       \* free permits of the enumeration semaphore

\* State of the download orchestrator
VARIABLES
    flatten,      \* --flatten
    objs,         \* the matched keys run() hands to the downloader, in order
    dl_pc,        \* where run() is in download mode: "idle", "hand", "notify", "done", "bail"
    obj_counter,  \* Downloader.obj_counter
    dls,          \* one record per (Downloader, S3Object) sent to a pool
    fs,           \* local files: path -> content
    ntfctn,       \* the unbounded notification channel
    total_bytes,  \* run(): total_bytes
    files         \* run(): files

\* State of the size pools of the download orchestrator
VARIABLES
    max_parallelism, \* --max-parallelism
    sizes,           \* the sizes of the objects run() hands over, in order
    handed,          \* how many of them DlPools::download_object has queued
    queued,          \* per pool, the objects waiting in its channel
    inflight,        \* per pool, the objects being downloaded (permit held)
    finished         \* per pool, the objects whose download returned

\* Output of the list mode
VARIABLES
    stream,       \* --stream
    printed       \* the result lines printed so far, in order

\* State of the receive loop of the download mode
VARIABLES
    path_mode,            \* --path-mode
    rx,                   \* the number of batches rx.recv() has returned
    objects_to_download,  \* run(): objects_to_download
    prefix_to_strip,      \* prefix_to_strip of the Downloader `dl` of run()
    jobs,                 \* the objects handed to the pools
    run_pc,               \* where run() is
    sent,                 \* ObjectDownloaded notifications in the channel
    downloaded_matches    \* run(): downloaded_matches

\* A pure function of the program, its arguments and its result
VARIABLES
    call,
    out

ck_vars == <<ck_todo, ck_tasks, ck_chan, ck_out, ck_permits>>

task_vars == <<tasks, calls, chan, received, permits>>

list_vars == <<stream, printed>>

enum_vars == <<raw, parts, keys, pc, err, bucket_calls, faults, part_i, prefixes, is_complete,
               scan_calls, ck_vars, task_vars, list_vars>>

dl_vars == <<flatten, objs, dl_pc, obj_counter, dls, fs, ntfctn, total_bytes, files>>

pool_vars == <<max_parallelism, sizes, handed, queued, inflight, finished>>

mode_vars == <<path_mode, rx, objects_to_download, prefix_to_strip, jobs, run_pc, sent,
               downloaded_matches>>

fn_vars == <<call, out>>

other_vars == <<dl_vars, pool_vars, mode_vars, fn_vars>>

vars == <<enum_vars, dl_vars, pool_vars, mode_vars, fn_vars>>

PoolNames == {"two_hundred_kb", "one_mb", "ten_mb", "more"}

\* The pools before download mode starts
PoolIdle ==
    /\ sizes = <<>>
    /\ handed = 0
    /\ queued = [p \in PoolNames |-> <<>>]
    /\ inflight = [p \in PoolNames |-> {}]
    /\ finished = [p \in PoolNames |-> {}]

\* The receive loop of the download mode before it starts
ModeIdle ==
    /\ path_mode = "absolute"
    /\ rx = 0
    /\ objects_to_download = <<>>
    /\ prefix_to_strip = <<>>
    /\ jobs = <<>>
    /\ run_pc = "idle"
    /\ sent = 0
    /\ downloaded_matches = 0

\* No pure function is being applied
FnIdle ==
    /\ call = [name |-> "none"]
    /\ out = [done |-> FALSE]

\* The orchestrator before download mode starts
DlIdle ==
    /\ flatten = FALSE
    /\ objs = <<>>
    /\ dl_pc = "idle"
    /\ obj_counter = 0
    /\ dls = <<>>
    /\ fs = {}
    /\ ntfctn = <<>>
    /\ total_bytes = 0
    /\ files = <<>>

PrefixResultObject(key) == [kind |-> "Object", key |-> key]
PrefixResultPrefix(value) == [kind |-> "Prefix", key |-> value]

\* run() before planning and enumeration start
EnumIdle ==
    /\ parts = <<>>
    /\ err = ""
    /\ bucket_calls = 0
    /\ faults = 0
    /\ part_i = 1
    /\ prefixes = << <<>> >>
    /\ is_complete = FALSE
    /\ scan_calls = <<>>
    /\ ck_todo = <<>>
    /\ ck_tasks = <<>>
    /\ ck_chan = <<>>
    /\ ck_out = {}
    /\ ck_permits = 0
    /\ tasks = <<>>
    /\ calls = <<>>
    /\ chan = <<>>
    /\ received = <<>>
    /\ permits = 0
    /\ printed = <<>>

Init ==
    /\ raw \in RawPatterns
    /\ keys \in Stores
    /\ pc = "client"
    /\ max_parallelism \in 1..MaxParallelism
    /\ stream \in BOOLEAN
    /\ EnumIdle
    /\ DlIdle
    /\ PoolIdle
    /\ ModeIdle
    /\ FnIdle

\* The outcomes of a store request: Ok, or Err while the run has faults left
Outcomes == IF faults < MaxFaults THEN BOOLEAN ELSE {TRUE}

\* create_s3_client: head_bucket is sent before the pattern is parsed; an
\* error without a region header makes run() fail
CreateClient ==
    /\ pc = "client"
    /\ bucket_calls' = bucket_calls + 1
    /\ \E ok \in Outcomes :
          /\ pc' = IF ok THEN "parse" ELSE "failed"
          /\ faults' = IF ok THEN faults ELSE faults + 1
          /\ err' = IF ok THEN err ELSE "client"
    /\ UNCHANGED <<raw, parts, keys, part_i, prefixes, is_complete, scan_calls, ck_vars, task_vars>>
    /\ UNCHANGED <<list_vars, other_vars>>

\* S3GlobMatcher::parse(raw_pattern)?
Parse ==
    /\ pc = "parse"
    /\ LET r == parse(raw)
       IN /\ parts' = IF r.ok THEN r.parts ELSE parts
          /\ pc' = IF r.ok THEN "plan" ELSE "failed"
          /\ err' = IF r.ok THEN err ELSE "parse"
    /\ UNCHANGED <<raw, keys, bucket_calls, faults, part_i, prefixes, is_complete, scan_calls, ck_vars, task_vars>>
    /\ UNCHANGED <<list_vars, other_vars>>

\* is_complete as set by the planner: false when a Recursive part stopped
\* the planning, true when the loop ran to the end
is_complete_on_recursive == FALSE
is_complete_at_end == TRUE

AfterPlanError_Ignored == "plan"

\* Where run() goes when find_prefixes returns Err
AfterPlanError == "failed"

\* The iteration for parts[i] sends scan requests
Scans(ps, ps_parts, i) ==
    ps_parts[i].kind = "Any" /\ scan_might_help(ps_parts, i) /\ ps # <<>>

\* find_prefixes: one iteration for an Any part or a Choice part that is
\* only a filter; a failed scan returns the error
PlanStep ==
    /\ pc = "plan"
    /\ part_i <= Len(parts)
    /\ ~is_recursive(parts[part_i])
    /\ ~NeedsCheck(prefixes, parts, part_i)
    /\ \E ok \in IF Scans(prefixes, parts, part_i) THEN Outcomes ELSE {TRUE} :
          /\ prefixes' = IF ok THEN PlanPart(keys, prefixes, parts, part_i) ELSE prefixes
          /\ faults' = IF ok THEN faults ELSE faults + 1
          /\ part_i' = IF ok THEN part_i + 1 ELSE part_i
          /\ pc' = IF ok THEN pc ELSE AfterPlanError
          /\ err' = IF ok THEN err ELSE "plan"
    /\ scan_calls' = IF Scans(prefixes, parts, part_i)
                     THEN scan_calls \o prefixes ELSE scan_calls
    /\ UNCHANGED <<raw, parts, keys, bucket_calls, is_complete, ck_vars, task_vars>>
    /\ UNCHANGED <<list_vars, other_vars>>

\* find_prefixes: a Choice part calls engine.check_prefixes;
\* mpsc::channel(prefixes.size_hint().0) panics when there is no prefix
CheckBegin ==
    /\ pc = "plan"
    /\ part_i <= Len(parts)
    /\ NeedsCheck(prefixes, parts, part_i)
    /\ ck_todo' = CheckCandidates(prefixes, parts, part_i)
    /\ pc' = IF CheckCandidates(prefixes, parts, part_i) = <<>> THEN "panic" ELSE "check"
    /\ ck_permits' = max_parallelism
    /\ UNCHANGED <<raw, parts, keys, err, bucket_calls, faults, part_i, prefixes, is_complete,
                   scan_calls, ck_tasks, ck_chan, ck_out, task_vars>>
    /\ UNCHANGED <<list_vars, other_vars>>

\* Probes holding a permit of the semaphore of check_prefixes
CkRunning == {t \in DOMAIN ck_tasks : ck_tasks[t] = "run"}

\* check_prefixes: acquire a permit and spawn the probe of the next prefix
CkSpawn ==
    /\ pc = "check"
    /\ Len(ck_tasks) < Len(ck_todo)
    /\ ck_permits > 0
    /\ ck_permits' = ck_permits - 1
    /\ ck_tasks' = Append(ck_tasks, "run")
    /\ UNCHANGED <<raw, parts, keys, pc, err, bucket_calls, faults, part_i, prefixes, is_complete,
                   scan_calls, ck_todo, ck_chan, ck_out, task_vars>>
    /\ UNCHANGED <<list_vars, other_vars>>

\* What a probe sends: Ok(prefix) when a key exists, Err(e) when the
\* request failed, nothing otherwise
ProbeResult(ks, prefix, ok) ==
    IF ~ok THEN <<[ok |-> FALSE, prefix |-> prefix]>>
    ELSE IF PrefixExists(ks, prefix) THEN <<[ok |-> TRUE, prefix |-> prefix]>>
    ELSE <<>>

ProbeRelease_LeakOnError(ok) == IF ok THEN 1 ELSE 0

\* The permits a probe gives back: drop(permit) comes before the match on
\* the result
ProbeRelease(ok) == 1

\* check_prefixes: a probe gets its response, drops the permit and sends
CkProbe(t) ==
    /\ pc = "check"
    /\ t \in DOMAIN ck_tasks
    /\ ck_tasks[t] = "run"
    /\ \E ok \in Outcomes :
          /\ ck_chan' = ck_chan \o ProbeResult(keys, ck_todo[t], ok)
          /\ faults' = IF ok THEN faults ELSE faults + 1
          /\ ck_permits' = ck_permits + ProbeRelease(ok)
    /\ ck_tasks' = [ck_tasks EXCEPT ![t] = "done"]
    /\ UNCHANGED <<raw, parts, keys, pc, err, bucket_calls, part_i, prefixes, is_complete,
                   scan_calls, ck_todo, ck_out, task_vars>>
    /\ UNCHANGED <<list_vars, other_vars>>

\* check_prefixes: the receive loop, entered after drop(tx); the first
\* Err received is returned
CkRecv ==
    /\ pc = "check"
    /\ Len(ck_tasks) = Len(ck_todo)
    /\ ck_chan # <<>>
    /\ ck_chan' = Tail(ck_chan)
    /\ ck_out' = IF Head(ck_chan).ok THEN ck_out \cup {Head(ck_chan).prefix} ELSE ck_out
    /\ pc' = IF Head(ck_chan).ok THEN pc ELSE AfterPlanError
    /\ err' = IF Head(ck_chan).ok THEN err ELSE "plan"
    /\ UNCHANGED <<raw, parts, keys, bucket_calls, faults, part_i, prefixes, is_complete,
                   scan_calls, ck_todo, ck_tasks, ck_permits, task_vars>>
    /\ UNCHANGED <<list_vars, other_vars>>

\* check_prefixes: the channel is closed and empty, Ok(new_prefixes)
CkReturn ==
    /\ pc = "check"
    /\ Len(ck_tasks) = Len(ck_todo)
    /\ CkRunning = {}
    /\ ck_chan = <<>>
    /\ prefixes' = SortedSeq(ck_out)
    /\ part_i' = part_i + 1
    /\ pc' = "plan"
    /\ ck_todo' = <<>>
    /\ ck_tasks' = <<>>
    /\ ck_out' = {}
    /\ ck_permits' = 0
    /\ UNCHANGED <<raw, parts, keys, err, bucket_calls, faults, is_complete, scan_calls, ck_chan, task_vars>>
    /\ UNCHANGED <<list_vars, other_vars>>

\* find_prefixes: `break` at a Recursive part
PlanRecursive ==
    /\ pc = "plan"
    /\ part_i <= Len(parts)
    /\ is_recursive(parts[part_i])
    /\ is_complete' = is_complete_on_recursive
    /\ pc' = "spawn"
    /\ permits' = max_parallelism
    /\ UNCHANGED <<raw, parts, keys, err, bucket_calls, faults, part_i, prefixes, scan_calls, ck_vars,
                   tasks, calls, chan, received>>
    /\ UNCHANGED <<list_vars, other_vars>>

\* find_prefixes: the loop ran over every part
PlanEnd ==
    /\ pc = "plan"
    /\ part_i > Len(parts)
    /\ is_complete' = is_complete_at_end
    /\ pc' = "spawn"
    /\ permits' = max_parallelism
    /\ UNCHANGED <<raw, parts, keys, err, bucket_calls, faults, part_i, prefixes, scan_calls, ck_vars,
                   tasks, calls, chan, received>>
    /\ UNCHANGED <<list_vars, other_vars>>

\* Tasks holding a permit of the enumeration semaphore
Running == {t \in DOMAIN tasks : tasks[t] \in {"head", "list"}}

TaskKind_AlwaysList(complete) == "list"

\* The kind of task run() spawns for each planned prefix
TaskKind(complete) == IF complete THEN "head" ELSE "list"

\* run(): acquire a permit and spawn the task of the next prefix
Spawn ==
    /\ pc = "spawn"
    /\ Len(tasks) < Len(prefixes)
    /\ permits > 0
    /\ permits' = permits - 1
    /\ tasks' = Append(tasks, TaskKind(is_complete))
    /\ calls' = Append(calls, [head |-> 0, list |-> 0])
    /\ UNCHANGED <<raw, parts, keys, pc, err, bucket_calls, faults, part_i, prefixes, is_complete,
                   scan_calls, ck_vars, chan, received>>
    /\ UNCHANGED <<list_vars, other_vars>>

\* run(): every task is spawned, drop(tx) and start receiving
DropTx ==
    /\ pc = "spawn"
    /\ Len(tasks) = Len(prefixes)
    /\ pc' = "recv"
    /\ UNCHANGED <<raw, parts, keys, err, bucket_calls, faults, part_i, prefixes, is_complete,
                   scan_calls, ck_vars, task_vars>>
    /\ UNCHANGED <<list_vars, other_vars>>

HeadResult_MissIsObject(ks, prefix) == PrefixResultObject(prefix)

\* head_object(key): succeeds when the key is an object of the bucket
HeadResult(ks, prefix) ==
    IF prefix \in ks THEN PrefixResultObject(prefix) ELSE PrefixResultPrefix(prefix)

\* The task spawned when is_complete: HEAD, release the permit, send
HeadTask(t) ==
    /\ t \in DOMAIN tasks
    /\ tasks[t] = "head"
    /\ chan' = Append(chan, <<HeadResult(keys, prefixes[t])>>)
    /\ calls' = [calls EXCEPT ![t].head = @ + 1]
    /\ tasks' = [tasks EXCEPT ![t] = "done"]
    /\ permits' = permits + 1
    /\ UNCHANGED <<raw, parts, keys, pc, err, bucket_calls, faults, part_i, prefixes, is_complete,
                   scan_calls, ck_vars, received>>
    /\ UNCHANGED <<list_vars, other_vars>>

\* list_matching_objects: the keys under the prefix, filtered by is_match
ListBatch(ks, pattern, prefix) ==
    LET q == SortedSeq({k \in ks : StartsWith(k, prefix) /\ is_match(pattern, k)})
    IN [n \in DOMAIN q |-> PrefixResultObject(q[n])]

\* The permits a listing task gives back: drop(permit) on Ok, and the
\* permit goes out of scope when `?` returns the error
ListRelease(ok) == 1

\* What the failure of a spawned listing task does to run(): the task
\* returns Err to a JoinHandle nobody awaits
AfterListError(now) == now

\* The task spawned otherwise: list without delimiter, send one batch per
\* page that has contents (the modelled buckets fit in one page); when the
\* page fails, `?` ends the task with nothing sent
ListTask(t) ==
    /\ t \in DOMAIN tasks
    /\ tasks[t] = "list"
    /\ \E ok \in Outcomes :
          /\ chan' = IF ok /\ PrefixExists(keys, prefixes[t])
                     THEN Append(chan, ListBatch(keys, raw, prefixes[t]))
                     ELSE chan
          /\ tasks' = [tasks EXCEPT ![t] = IF ok THEN "done" ELSE "failed"]
          /\ faults' = IF ok THEN faults ELSE faults + 1
          /\ pc' = IF ok THEN pc ELSE AfterListError(pc)
          /\ permits' = permits + ListRelease(ok)
    /\ calls' = [calls EXCEPT ![t].list = @ + 1]
    /\ UNCHANGED <<raw, parts, keys, err, bucket_calls, part_i, prefixes, is_complete,
                   scan_calls, ck_vars, received>>
    /\ UNCHANGED <<list_vars, other_vars>>

\* run(): rx.recv() returns a batch
sort_by_key_Unsorted(q) == q

\* objects.sort_by_key(|r| r.key().to_owned()): a stable sort, ascending
RECURSIVE sort_by_key(_)
sort_by_key(q) ==
    IF q = <<>> THEN <<>>
    ELSE LET rest == sort_by_key(SubSeq(q, 1, Len(q) - 1))
             x == q[Len(q)]
             pos == Cardinality({i \in DOMAIN rest : ~StrLess(x.key, rest[i].key)})
         IN SubSeq(rest, 1, pos) \o <<x>> \o SubSeq(rest, pos + 1, Len(rest))

\* run(), list mode: one batch is received; with --stream its results are
\* printed, without they are kept in matching_objects
Recv ==
    /\ pc = "recv"
    /\ chan # <<>>
    /\ received' = received \o Head(chan)
    /\ chan' = Tail(chan)
    /\ printed' = IF stream THEN printed \o Head(chan) ELSE printed
    /\ UNCHANGED stream
    /\ UNCHANGED <<raw, parts, keys, pc, err, bucket_calls, faults, part_i, prefixes, is_complete,
                   scan_calls, ck_vars, tasks, calls, permits>>
    /\ UNCHANGED other_vars

\* run(): rx.recv() returns None: every sender is dropped and the channel is
\* empty; the list mode sorts matching_objects and prints them
Close ==
    /\ pc = "recv"
    /\ chan = <<>>
    /\ Running = {}
    /\ pc' = "done"
    /\ printed' = IF stream THEN printed ELSE sort_by_key(received)
    /\ UNCHANGED stream
    /\ UNCHANGED <<raw, parts, keys, err, bucket_calls, faults, part_i, prefixes, is_complete,
                   scan_calls, ck_vars, task_vars>>
    /\ UNCHANGED other_vars

Next ==
    \/ CreateClient
    \/ Parse
    \/ PlanStep
    \/ CheckBegin
    \/ CkSpawn
    \/ \E t \in DOMAIN ck_tasks : CkProbe(t)
    \/ CkRecv
    \/ CkReturn
    \/ PlanRecursive
    \/ PlanEnd
    \/ Spawn
    \/ DropTx
    \/ \E t \in DOMAIN tasks : HeadTask(t)
    \/ \E t \in DOMAIN tasks : ListTask(t)
    \/ Recv
    \/ Close

Spec == Init /\ [][Next]_vars

(***************************************************************************)
(* Download orchestrator                                                   *)
(***************************************************************************)

MaxObjs == 2

\* --dest
base_path == <<"d">>

\* The keys the downloader is handed, and the chunks the body stream of
\* each yields (bytes are numbers)
DlKeys == {<<"a", "/", "b">>, <<"a", "-", "b">>, <<"c">>}

ObjBody(key) ==
    CASE key = <<"a", "/", "b">> -> << <<1>>, <<2>> >>
      [] key = <<"a", "-", "b">> -> << <<3>> >>
      [] key = <<"c">> -> <<>>

ObjSize(key) == Len(Flatten(ObjBody(key)))

ObjSeqs == UNION {[1..n -> DlKeys] : n \in 0..MaxObjs}

replace_separator_Identity(s) == s

\* str::replace(MAIN_SEPARATOR_STR, "-")
replace_separator(s) == [i \in DOMAIN s |-> IF s[i] = "/" THEN "-" ELSE s[i]]

\* key.strip_prefix(prefix_to_strip), then the flattening
key_suffix(key, strip, flat) ==
    LET stripped == DropFirst(key, Len(strip))
    IN IF flat THEN replace_separator(stripped) ELSE stripped

\* PathBuf::join: an absolute argument replaces the base
path_join(base, suffix) ==
    IF suffix # <<>> /\ suffix[1] = "/" THEN suffix ELSE base \o <<"/">> \o suffix

LastIndexOf(s, c) ==
    LET hits == {i \in DOMAIN s : s[i] = c}
    IN IF hits = {} THEN 0 ELSE CHOOSE i \in hits : \A j \in hits : j <= i

\* Path::with_extension: the file stem of the last component, ".", extension
with_extension(path, ext) ==
    LET slash == LastIndexOf(path, "/")
        dot == LastIndexOf(path, ".")
        stem_end == IF dot > slash + 1 THEN dot - 1 ELSE Len(path)
    IN SubSeq(path, 1, stem_end) \o <<".">> \o ext

\* The final path of a download (prefix_to_strip is empty: --path-mode abs)
local_path(key, flat) == path_join(base_path, key_suffix(key, <<>>, flat))

\* format!(".s3glob-tmp-{}", obj_id) as the extension
temp_path(path, obj_id) == with_extension(path, <<".", "s3glob-tmp-", ToString(obj_id)>>)

\* The local file system as a set of files
fs_exists(f, path) == \E e \in f : e.path = path
fs_read(f, path) == (CHOOSE e \in f : e.path = path).content
fs_write(f, path, content) ==
    {e \in f : e.path # path} \cup {[path |-> path, content |-> content]}
fs_rename(f, from, to) ==
    {e \in f : e.path \notin {from, to}} \cup {[path |-> to, content |-> fs_read(f, from)]}

\* enum Notification
ObjectDownloaded(path) == [kind |-> "ObjectDownloaded", path |-> path, bytes |-> 0]
BytesDownloaded(bytes) == [kind |-> "BytesDownloaded", path |-> <<>>, bytes |-> bytes]

fresh_SameId(counter) == counter

\* Downloader::fresh: the id of the next downloader
fresh(counter) == counter + 1

\* DlPools::new: the permits of the pool of objects under 200 kB
PoolPermits(limit) == IF limit < 500 THEN limit ELSE 500

SpecDlInit ==
    /\ raw = <<>>
    /\ keys = {}
    /\ pc = "download"
    /\ max_parallelism = MaxParallelism
    /\ stream = FALSE
    /\ EnumIdle
    /\ PoolIdle
    /\ ModeIdle
    /\ FnIdle
    /\ flatten \in BOOLEAN
    /\ objs \in ObjSeqs
    /\ dl_pc = "hand"
    /\ obj_counter = 0
    /\ dls = <<>>
    /\ fs = {}
    /\ ntfctn = <<>>
    /\ total_bytes = 0
    /\ files = <<>>

\* run(): pools.download_object(dl.fresh(), obj) for the next object
DlHand ==
    /\ dl_pc = "hand"
    /\ Len(dls) < Len(objs)
    /\ obj_counter' = fresh(obj_counter)
    /\ dls' = Append(dls, [key |-> objs[Len(dls) + 1], obj_id |-> fresh(obj_counter),
                           pc |-> "queued", next |-> 1, failed |-> "",
                           renamed |-> FALSE, reported |-> 0])
    /\ UNCHANGED <<flatten, objs, dl_pc, fs, ntfctn, total_bytes, files>>
    /\ UNCHANGED <<enum_vars, pool_vars, mode_vars, fn_vars>>

\* run(): every object is handed over; drop(dl), drop(pools), drop(ntfctn_tx)
DlHandEnd ==
    /\ dl_pc = "hand"
    /\ Len(dls) = Len(objs)
    /\ dl_pc' = "notify"
    /\ UNCHANGED <<flatten, objs, obj_counter, dls, fs, ntfctn, total_bytes, files>>
    /\ UNCHANGED <<enum_vars, pool_vars, mode_vars, fn_vars>>

DlPath(t) == local_path(dls[t].key, flatten)
DlTemp(t) == temp_path(DlPath(t), dls[t].obj_id)
DlActive == {t \in DOMAIN dls : dls[t].pc \notin {"queued", "done", "failed"}}
DlGoto(t, to) == [dls EXCEPT ![t].pc = to]
DlFail(t, step) == [dls EXCEPT ![t].pc = "failed", ![t].failed = step]

\* start_threadpool: receive the next pair in order, acquire a permit, spawn
DlAcquire(t) ==
    /\ t \in DOMAIN dls
    /\ dls[t].pc = "queued"
    /\ \A u \in 1..(t - 1) : dls[u].pc # "queued"
    /\ Cardinality(DlActive) < PoolPermits(max_parallelism)
    /\ dls' = DlGoto(t, "mkdir")
    /\ UNCHANGED <<flatten, objs, dl_pc, obj_counter, fs, ntfctn, total_bytes, files>>
    /\ UNCHANGED <<enum_vars, pool_vars, mode_vars, fn_vars>>

\* download_object: create_dir_all(dir)
DlMkdir(t) ==
    /\ t \in DOMAIN dls
    /\ dls[t].pc = "mkdir"
    /\ \E ok \in BOOLEAN : dls' = IF ok THEN DlGoto(t, "get") ELSE DlFail(t, "mkdir")
    /\ UNCHANGED <<flatten, objs, dl_pc, obj_counter, fs, ntfctn, total_bytes, files>>
    /\ UNCHANGED <<enum_vars, pool_vars, mode_vars, fn_vars>>

\* download_object: get_object().send()
DlGet(t) ==
    /\ t \in DOMAIN dls
    /\ dls[t].pc = "get"
    /\ \E ok \in BOOLEAN : dls' = IF ok THEN DlGoto(t, "create") ELSE DlFail(t, "get")
    /\ UNCHANGED <<flatten, objs, dl_pc, obj_counter, fs, ntfctn, total_bytes, files>>
    /\ UNCHANGED <<enum_vars, pool_vars, mode_vars, fn_vars>>

\* download_object: File::create(temp_path) creates or truncates the file
DlCreate(t) ==
    /\ t \in DOMAIN dls
    /\ dls[t].pc = "create"
    /\ \E ok \in BOOLEAN :
          /\ dls' = IF ok THEN DlGoto(t, "body") ELSE DlFail(t, "create")
          /\ fs' = IF ok THEN fs_write(fs, DlTemp(t), <<>>) ELSE fs
    /\ UNCHANGED <<flatten, objs, dl_pc, obj_counter, ntfctn, total_bytes, files>>
    /\ UNCHANGED <<enum_vars, pool_vars, mode_vars, fn_vars>>

ChunkNotes_BeforeWrite(outcome, chunk) ==
    IF outcome \in {"ok", "write"} THEN <<BytesDownloaded(Len(chunk))>> ELSE <<>>

\* The notifications of one turn of the chunk loop: BytesDownloaded after
\* write_all succeeded
ChunkNotes(outcome, chunk) ==
    IF outcome = "ok" THEN <<BytesDownloaded(Len(chunk))>> ELSE <<>>

\* download_object: one turn of the chunk loop with a chunk left in the
\* stream: try_next fails ("stream"), write_all fails ("write"), or both
\* succeed and BytesDownloaded is sent
DlChunk(t) ==
    /\ t \in DOMAIN dls
    /\ dls[t].pc = "body"
    /\ dls[t].next <= Len(ObjBody(dls[t].key))
    /\ \E outcome \in {"ok", "stream", "write"} :
          LET chunk == ObjBody(dls[t].key)[dls[t].next]
          IN /\ dls' = IF outcome = "ok" THEN [dls EXCEPT ![t].next = @ + 1]
                       ELSE DlFail(t, outcome)
             /\ fs' = IF outcome = "ok"
                      THEN fs_write(fs, DlTemp(t), fs_read(fs, DlTemp(t)) \o chunk)
                      ELSE fs
             /\ ntfctn' = ntfctn \o ChunkNotes(outcome, chunk)
    /\ UNCHANGED <<flatten, objs, dl_pc, obj_counter, total_bytes, files>>
    /\ UNCHANGED <<enum_vars, pool_vars, mode_vars, fn_vars>>

\* download_object: try_next at the end of the stream: Ok(None) or Err
DlEndOfStream(t) ==
    /\ t \in DOMAIN dls
    /\ dls[t].pc = "body"
    /\ dls[t].next > Len(ObjBody(dls[t].key))
    /\ \E ok \in BOOLEAN : dls' = IF ok THEN DlGoto(t, "flush") ELSE DlFail(t, "stream")
    /\ UNCHANGED <<flatten, objs, dl_pc, obj_counter, fs, ntfctn, total_bytes, files>>
    /\ UNCHANGED <<enum_vars, pool_vars, mode_vars, fn_vars>>

\* download_object: file.flush()
DlFlush(t) ==
    /\ t \in DOMAIN dls
    /\ dls[t].pc = "flush"
    /\ \E ok \in BOOLEAN : dls' = IF ok THEN DlGoto(t, "rename") ELSE DlFail(t, "flush")
    /\ UNCHANGED <<flatten, objs, dl_pc, obj_counter, fs, ntfctn, total_bytes, files>>
    /\ UNCHANGED <<enum_vars, pool_vars, mode_vars, fn_vars>>

AfterRename_Always(ok) == "send"

\* Where download_object goes after std::fs::rename
AfterRename(ok) == IF ok THEN "send" ELSE "failed"

\* download_object: rename(temp_path, path)
DlRename(t) ==
    /\ t \in DOMAIN dls
    /\ dls[t].pc = "rename"
    /\ \E ok \in BOOLEAN :
          /\ dls' = [dls EXCEPT ![t].pc = AfterRename(ok),
                                ![t].failed = IF ok THEN "" ELSE "rename",
                                ![t].renamed = ok]
          /\ fs' = IF ok THEN fs_rename(fs, DlTemp(t), DlPath(t)) ELSE fs
    /\ UNCHANGED <<flatten, objs, dl_pc, obj_counter, ntfctn, total_bytes, files>>
    /\ UNCHANGED <<enum_vars, pool_vars, mode_vars, fn_vars>>

\* download_object: send ObjectDownloaded(path), return, drop(permit)
DlNotify(t) ==
    /\ t \in DOMAIN dls
    /\ dls[t].pc = "send"
    /\ ntfctn' = Append(ntfctn, ObjectDownloaded(DlPath(t)))
    /\ dls' = [dls EXCEPT ![t].pc = "done", ![t].reported = @ + 1]
    /\ UNCHANGED <<flatten, objs, dl_pc, obj_counter, fs, total_bytes, files>>
    /\ UNCHANGED <<enum_vars, pool_vars, mode_vars, fn_vars>>

\* run(): the notification loop receives one notification
DlRecv ==
    /\ dl_pc = "notify"
    /\ ntfctn # <<>>
    /\ LET n == Head(ntfctn)
       IN /\ total_bytes' = IF n.kind = "BytesDownloaded" THEN total_bytes + n.bytes
                            ELSE total_bytes
          /\ files' = IF n.kind = "ObjectDownloaded" THEN Append(files, n.path) ELSE files
    /\ ntfctn' = Tail(ntfctn)
    /\ UNCHANGED <<flatten, objs, dl_pc, obj_counter, dls, fs>>
    /\ UNCHANGED <<enum_vars, pool_vars, mode_vars, fn_vars>>

\* run(): the notification channel is closed (every sender dropped) and
\* empty; bail when no file was downloaded
DlClose ==
    /\ dl_pc = "notify"
    /\ ntfctn = <<>>
    /\ \A t \in DOMAIN dls : dls[t].pc \in {"done", "failed"}
    /\ dl_pc' = IF files = <<>> THEN "bail" ELSE "done"
    /\ UNCHANGED <<flatten, objs, obj_counter, dls, fs, ntfctn, total_bytes, files>>
    /\ UNCHANGED <<enum_vars, pool_vars, mode_vars, fn_vars>>

SpecDlNext ==
    \/ DlHand
    \/ DlHandEnd
    \/ \E t \in DOMAIN dls : DlAcquire(t)
    \/ \E t \in DOMAIN dls : DlMkdir(t)
    \/ \E t \in DOMAIN dls : DlGet(t)
    \/ \E t \in DOMAIN dls : DlCreate(t)
    \/ \E t \in DOMAIN dls : DlChunk(t)
    \/ \E t \in DOMAIN dls : DlEndOfStream(t)
    \/ \E t \in DOMAIN dls : DlFlush(t)
    \/ \E t \in DOMAIN dls : DlRename(t)
    \/ \E t \in DOMAIN dls : DlNotify(t)
    \/ DlRecv
    \/ DlClose

SpecDl == SpecDlInit /\ [][SpecDlNext]_vars

\* ------------------------------------------------------------------
\* Pure functions: prefix_join, extract_prefix_to_strip, the local path of
\* a download, S3GlobMatcher::parse and parse_pattern
\* ------------------------------------------------------------------

\* The length of the arguments of prefix_join, of the keys and patterns
\* given to extract_prefix_to_strip, the tokens of a parsed pattern and the
\* members of a character class
MaxStrLen == 2
MaxKeyLen == 3
MaxParseTokens == 3
MaxMembers == 2

\* A character whose UTF-8 encoding has two bytes
EAcute == "U+00E9"

\* char::len_utf8
Utf8Len(c) == IF c = EAcute THEN 2 ELSE 1

\* str::len: the length in bytes
RECURSIVE ByteLen(_)
ByteLen(s) == IF s = <<>> THEN 0 ELSE Utf8Len(Head(s)) + ByteLen(Tail(s))

Strings(alphabet, n) == UNION {[1..k -> alphabet] : k \in 0..n}

\* The values of --delimiter the model uses
Delimiters == {"/", ","}

\* The result of a function that may panic
Returned(v) == [ok |-> TRUE, val |-> v]
Panicked == [ok |-> FALSE, val |-> <<>>]

\* String::truncate(new_len): panics when new_len is inside a character
truncate(s, new_len) ==
    IF new_len > ByteLen(s) THEN Returned(s)
    ELSE LET cuts == {k \in 0..Len(s) : ByteLen(SubSeq(s, 1, k)) = new_len}
         IN IF cuts = {} THEN Panicked
            ELSE Returned(SubSeq(s, 1, CHOOSE k \in cuts : TRUE))

\* a.chars().zip(b.chars()).take_while(|(a, b)| a == b).map(|(a, _)| a).collect()
zip_take_while_eq(a, b) ==
    LET n == IF Len(a) < Len(b) THEN Len(a) ELSE Len(b)
        same == {k \in 0..n : \A i \in 1..k : a[i] = b[i]}
    IN SubSeq(a, 1, CHOOSE k \in same : \A j \in same : j <= k)

\* The loop over keys[1..] of the Shortest arm
RECURSIVE common_prefix(_, _, _)
common_prefix(prefix, ks, i) ==
    IF i > Len(ks) THEN prefix
    ELSE CHOOSE r \in {common_prefix(p, ks, i + 1) : p \in {zip_take_while_eq(prefix, ks[i])}} :
             TRUE

\* prefix.chars().rev().take_while(|c| *c != '/').count()
trailing_non_slash(s) == Len(s) - LastIndexOf(s, "/")

up_to_glob_WholePattern(raw_pattern) == raw_pattern

\* raw_pattern.chars().take_while(|c| !GLOB_CHARS.contains(c)).collect()
up_to_glob(raw_pattern) ==
    LET globs == {i \in DOMAIN raw_pattern : raw_pattern[i] \in GLOB_CHARS}
    IN IF globs = {} THEN raw_pattern
       ELSE SubSeq(raw_pattern, 1, (CHOOSE i \in globs : \A j \in globs : i <= j) - 1)

\* fn extract_prefix_to_strip
extract_prefix_to_strip(raw_pattern, mode, ks) ==
    CASE mode = "absolute" -> Returned(<<>>)
      [] mode = "from-first-glob" ->
            LET utg == up_to_glob(raw_pattern)
                slash == LastIndexOf(utg, "/")
            IN IF slash > 0 THEN Returned(SubSeq(utg, 1, slash)) ELSE Returned(utg)
      [] mode = "shortest" ->
            IF ks = <<>> THEN Returned(<<>>)
            ELSE LET prefix == common_prefix(ks[1], ks, 2)
                 IN truncate(prefix, ByteLen(prefix) - trailing_non_slash(prefix))

\* The inputs of the functions
JoinArgs == Strings({"a", "/", ","}, MaxStrLen)
FnKeys == Strings({"a", "/", EAcute}, MaxKeyLen) \ {<<>>}
FnPatterns == Strings({"a", "/", "*"}, MaxKeyLen)
FlattenKeys == Strings({"a", "/", ","}, MaxKeyLen) \ {<<>>}

ParseTokens ==
    {<<"a">>, <<"/">>, <<"*">>, <<"?">>, <<"{", "a", ",", "b", "}">>, <<"[", "a", "b", "]">>,
     <<"[", "a", "-", "c", "]">>, <<"[", "!", "a", "]">>}

ParsePatterns == {Flatten(q) : q \in Strings(ParseTokens, MaxParseTokens)} \ {<<>>}

\* Constructs that are not closed, as the end of a pattern
UnclosedTokens ==
    {<<"{">>, <<"{", "a">>, <<"{", "a", ",", "b">>, <<"[">>, <<"[", "a">>, <<"[", "a", "b">>,
     <<"[", "!">>, <<"[", "!", "a">>, <<"[", "]">>, <<"[", "a", "-">>, <<"[", "a", "-", "]">>,
     <<"[", "!", "a", "-">>, <<"[", "!", "a", "-", "]">>}

\* Ranges whose end is not above their start
InvertedRanges ==
    {<<"[", "c", "-", "a", "]">>, <<"[", "a", "-", "a", "]">>, <<"[", "!", "b", "-", "a", "]">>}

\* Classes with a dash as their first member, and as their last
DashFirstClasses ==
    {<<"[", "-", "a", "]">>, <<"[", "-", "]">>, <<"[", "!", "-", "a", "]">>,
     <<"[", "!", "-", "]">>, <<"[", "-", "a", "-", "c", "]">>}
DashLastClasses == {<<"[", "a", "-", "]">>, <<"[", "a", "b", "-", "]">>, <<"[", "!", "a", "-", "]">>}

\* Well-formed text around a construct
Around == {<<>>, <<"a">>, <<"a", "/">>, <<"*">>, <<"{", "a", ",", "b", "}">>}

MalformedPatterns ==
    {p \o t : p \in Around, t \in UnclosedTokens}
        \cup {p \o t \o q : p \in Around, q \in Around, t \in InvertedRanges}

\* Patterns with adjacent literals, alternations and classes
MergePatterns ==
    {<<"a", "/", "{", "/", "b", ",", "c", "}">>,
     <<"{", "a", "/", ",", "b", "}", "{", "/", "a", ",", "b", "}">>,
     <<"{", "a", ",", "b", "}", "[", "a", "b", "]", "{", "b", ",", "c", "}">>,
     <<"/", "{", "a", ",", "b", "}", "*", "/">>,
     <<"a", "{", "a", ",", "b", "}", "/", "c">>}

DashPatterns == {p \o t \o q : p \in Around, q \in Around, t \in DashFirstClasses \cup DashLastClasses}

\* The members of a character class: a character or a range
ClassMembers ==
    {<<"a">>, <<"b">>, <<"c">>, <<"a", "-", "b">>, <<"a", "-", "c">>, <<"b", "-", "c">>}

ClassLists == Strings(ClassMembers, MaxMembers) \ {<<>>}

FnCalls ==
    {[name |-> "prefix_join", a |-> a, b |-> b] : a \in JoinArgs, b \in JoinArgs}
        \cup {[name |-> "extract_prefix_to_strip", raw_pattern |-> r, mode |-> "from-first-glob",
               ks |-> <<>>] : r \in FnPatterns}
        \cup {[name |-> "extract_prefix_to_strip", raw_pattern |-> <<"*">>, mode |-> m,
               ks |-> ks] : m \in {"shortest", "absolute"},
                            ks \in {<<>>} \cup {<<k>> : k \in FnKeys}
                                      \cup {<<k, l>> : k \in FnKeys, l \in FnKeys}}
        \cup {[name |-> "local_path", delimiter |-> d, key |-> k, flat |-> f] :
                 d \in Delimiters, k \in FlattenKeys, f \in BOOLEAN}
        \cup {[name |-> "parse", raw |-> r] :
                 r \in ParsePatterns \cup MalformedPatterns \cup DashPatterns \cup MergePatterns}
        \cup {[name |-> "parse_pattern", members |-> ms] : ms \in ClassLists}

SpecFnInit ==
    /\ raw = <<>>
    /\ keys = {}
    /\ pc = "fn"
    /\ max_parallelism = 1
    /\ stream = FALSE
    /\ EnumIdle
    /\ DlIdle
    /\ PoolIdle
    /\ ModeIdle
    /\ call \in FnCalls
    /\ out = [done |-> FALSE]

FnUnchanged == UNCHANGED <<call, enum_vars, dl_vars, pool_vars, mode_vars>>

\* prefix_join(a, b)
FnPrefixJoin ==
    /\ call.name = "prefix_join"
    /\ ~out.done
    /\ out' = [done |-> TRUE, val |-> prefix_join(call.a, call.b)]
    /\ FnUnchanged

\* extract_prefix_to_strip(raw_pattern, path_mode, keys)
FnExtractPrefix ==
    /\ call.name = "extract_prefix_to_strip"
    /\ ~out.done
    /\ out' = [done |-> TRUE,
               val |-> extract_prefix_to_strip(call.raw_pattern, call.mode, call.ks)]
    /\ FnUnchanged

\* Downloader::download_object: key_suffix and path of an object, with an
\* empty prefix_to_strip
FnLocalPath ==
    /\ call.name = "local_path"
    /\ ~out.done
    /\ out' = [done |-> TRUE,
               val |-> [rel |-> key_suffix(call.key, <<>>, call.flat),
                        path |-> local_path(call.key, call.flat)]]
    /\ FnUnchanged

\* S3GlobMatcher::parse: the parts before and after the merge pass
FnParse ==
    /\ call.name = "parse"
    /\ ~out.done
    /\ out' = [done |-> TRUE,
               val |-> [pre |-> parse_loop(call.raw, <<>>), post |-> parse(call.raw)]]
    /\ FnUnchanged

\* The text of a class with these members, and of the alternation of the
\* characters `chars`
ClassText(ms) == <<"[">> \o Flatten(ms) \o <<"]">>
AlternationText(chars) ==
    <<"{">> \o Flatten([k \in DOMAIN chars |-> IF k = 1 THEN <<chars[k]>> ELSE <<",", chars[k]>>])
        \o <<"}">>

\* parse_pattern of a character class
FnParseClass ==
    /\ call.name = "parse_pattern"
    /\ ~out.done
    /\ out' = [done |-> TRUE, val |-> parse_pattern(ClassText(call.members))]
    /\ FnUnchanged

SpecFnNext ==
    \/ FnPrefixJoin
    \/ FnExtractPrefix
    \/ FnLocalPath
    \/ FnParse
    \/ FnParseClass

SpecFn == SpecFnInit /\ [][SpecFnNext]_vars

\* ------------------------------------------------------------------
\* The receive loop of the download mode (main.rs, Command::Download):
\* dispatching or buffering by path mode, and the end of the run.  A
\* download is one step here: it returns with or without an error.
\* ------------------------------------------------------------------

\* The most batches the enumeration delivers in one run
MaxBatches == 2

ModePattern == <<"a", "/", "*", "*">>

\* The batches of matched objects the enumeration may deliver
ModeBatches ==
    { <<PrefixResultObject(<<"a", "/", EAcute>>)>>,
      <<PrefixResultObject(<<"a", "/", "a", "/", "b">>)>>,
      <<PrefixResultObject(<<"a", "/", "b">>), PrefixResultObject(<<"a", "/", "c">>)>> }

PathModes == {"absolute", "from-first-glob", "shortest"}

Buffers_Never(mode) == FALSE

\* matches!(path_mode, PathMode::Shortest | PathMode::S)
Buffers(mode) == mode = "shortest"

SpecModeInit ==
    /\ raw = ModePattern
    /\ keys = {}
    /\ pc = "download"
    /\ max_parallelism \in 1..MaxParallelism
    /\ stream = FALSE
    /\ EnumIdle
    /\ DlIdle
    /\ PoolIdle
    /\ FnIdle
    /\ path_mode \in PathModes
    /\ rx = 0
    /\ objects_to_download = <<>>
    /\ prefix_to_strip = extract_prefix_to_strip(ModePattern, path_mode, <<>>).val
    /\ jobs = <<>>
    /\ run_pc = "loop"
    /\ sent = 0
    /\ downloaded_matches = 0

ModeUnchanged == UNCHANGED <<enum_vars, dl_vars, pool_vars, fn_vars>>

\* pools.download_object(dl.fresh(), obj) for the Object results of q
Dispatched(q, strip) ==
    LET objects == SelectSeq(q, LAMBDA r : r.kind = "Object")
    IN [k \in DOMAIN objects |->
           [key |-> objects[k].key, prefix_to_strip |-> strip, st |-> "queued"]]

\* The keys of the objects run() has received
ReceivedKeys ==
    {jobs[j].key : j \in DOMAIN jobs}
        \cup {objects_to_download[k].key : k \in DOMAIN objects_to_download}

\* run(): rx.recv() returns a batch of objects not delivered before; its
\* objects are buffered or handed to the pools, its prefixes are skipped
ModeRecv ==
    /\ run_pc = "loop"
    /\ rx < MaxBatches
    /\ rx' = rx + 1
    /\ \E results \in ModeBatches :
          /\ \A k \in DOMAIN results : results[k].key \notin ReceivedKeys
          /\ IF Buffers(path_mode)
             THEN /\ objects_to_download' =
                        objects_to_download \o SelectSeq(results, LAMBDA r : r.kind = "Object")
                  /\ UNCHANGED jobs
             ELSE /\ jobs' = jobs \o Dispatched(results, prefix_to_strip)
                  /\ UNCHANGED objects_to_download
    /\ UNCHANGED <<path_mode, prefix_to_strip, run_pc, sent, downloaded_matches>>
    /\ ModeUnchanged

\* run(), shortest: extract_prefix_to_strip(&raw_pattern, path_mode,
\* &objects_to_download)
ShortestPrefix ==
    extract_prefix_to_strip(raw, path_mode,
        [k \in DOMAIN objects_to_download |-> objects_to_download[k].key])

\* run(): rx.recv() returns None; drop(dl), drop(pools); under shortest the
\* prefix is computed from the buffered objects and a new Downloader and new
\* pools are made, otherwise drop(ntfctn_tx)
ModeRxClose ==
    /\ run_pc = "loop"
    /\ prefix_to_strip' = IF Buffers(path_mode) THEN ShortestPrefix.val ELSE prefix_to_strip
    /\ run_pc' = IF ~Buffers(path_mode) THEN "notify"
                 ELSE IF ShortestPrefix.ok THEN "dispatch" ELSE "panic"
    /\ UNCHANGED <<path_mode, rx, objects_to_download, jobs, sent, downloaded_matches>>
    /\ ModeUnchanged

\* run(), shortest: pools.download_object(dl.fresh(), obj) for the next
\* buffered object
ModeDispatch ==
    /\ run_pc = "dispatch"
    /\ objects_to_download # <<>>
    /\ jobs' = jobs \o Dispatched(<<Head(objects_to_download)>>, prefix_to_strip)
    /\ objects_to_download' = Tail(objects_to_download)
    /\ UNCHANGED <<path_mode, rx, prefix_to_strip, run_pc, sent, downloaded_matches>>
    /\ ModeUnchanged

\* run(), shortest: the block ends, its Downloader and its pools are dropped
ModeDispatchEnd ==
    /\ run_pc = "dispatch"
    /\ objects_to_download = <<>>
    /\ run_pc' = "notify"
    /\ UNCHANGED <<path_mode, rx, objects_to_download, prefix_to_strip, jobs, sent,
                   downloaded_matches>>
    /\ ModeUnchanged

JobsIn(states) == {j \in DOMAIN jobs : jobs[j].st \in states}

\* start_threadpool: the next queued pair is received, a permit acquired
\* and the download spawned
JobStart(j) ==
    /\ j \in JobsIn({"queued"})
    /\ \A i \in 1..(j - 1) : jobs[i].st # "queued"
    /\ Cardinality(JobsIn({"running"})) < PoolPermits(max_parallelism)
    /\ jobs' = [jobs EXCEPT ![j].st = "running"]
    /\ UNCHANGED <<path_mode, rx, objects_to_download, prefix_to_strip, run_pc, sent,
                   downloaded_matches>>
    /\ ModeUnchanged

\* start_threadpool: download_object returns, after ObjectDownloaded was
\* sent or after an error; the Downloader and the permit are dropped
JobFinish(j) ==
    /\ j \in JobsIn({"running"})
    /\ \E ok \in BOOLEAN :
          /\ jobs' = [jobs EXCEPT ![j].st = IF ok THEN "done" ELSE "failed"]
          /\ sent' = IF ok THEN sent + 1 ELSE sent
    /\ UNCHANGED <<path_mode, rx, objects_to_download, prefix_to_strip, run_pc,
                   downloaded_matches>>
    /\ ModeUnchanged

\* run(): ntfctn_rx.recv() returns ObjectDownloaded
ModeNotified ==
    /\ run_pc = "notify"
    /\ sent > 0
    /\ sent' = sent - 1
    /\ downloaded_matches' = downloaded_matches + 1
    /\ UNCHANGED <<path_mode, rx, objects_to_download, prefix_to_strip, jobs, run_pc>>
    /\ ModeUnchanged

SendersAlive_RunningOnly ==
    (IF run_pc \in {"loop", "dispatch"} THEN {0} ELSE {}) \cup JobsIn({"running"})

\* The holders of a sender of the notification channel: run() (0) until it
\* has dropped ntfctn_tx and its Downloader, and the Downloader of every
\* object handed over, until its download has returned
SendersAlive ==
    (IF run_pc \in {"loop", "dispatch"} THEN {0} ELSE {}) \cup JobsIn({"queued", "running"})

\* run(): ntfctn_rx.recv() returns None: the channel is empty and every
\* sender is dropped; bail when no file was downloaded
ModeEnd ==
    /\ run_pc = "notify"
    /\ sent = 0
    /\ SendersAlive = {}
    /\ run_pc' = IF downloaded_matches = 0 THEN "bail" ELSE "done"
    /\ UNCHANGED <<path_mode, rx, objects_to_download, prefix_to_strip, jobs, sent,
                   downloaded_matches>>
    /\ ModeUnchanged

SpecModeNext ==
    \/ ModeRecv
    \/ ModeRxClose
    \/ ModeDispatch
    \/ ModeDispatchEnd
    \/ \E j \in DOMAIN jobs : JobStart(j)
    \/ \E j \in DOMAIN jobs : JobFinish(j)
    \/ ModeNotified
    \/ ModeEnd

SpecMode == SpecModeInit /\ [][SpecModeNext]_vars

\* Every call returns and every runnable task is scheduled: a step that can
\* be taken is eventually taken
SpecModeFair == SpecMode /\ WF_vars(SpecModeNext)

(***************************************************************************)
(* Claims about planning and enumeration                                   *)
(***************************************************************************)

KeySet(q) == {q[i].key : i \in {j \in DOMAIN q : q[j].kind = "Object"}}

\* Every result sent so far, received or still in the channel
Emitted == SeqToSet(received) \cup UNION {SeqToSet(chan[i]) : i \in DOMAIN chan}

\* find_prefixes has returned Ok
Planned == pc \in {"spawn", "recv", "done"}

HasRecursive == \E i \in DOMAIN parts : is_recursive(parts[i])

\* The stored keys the anchored compiled regex of the pattern matches
MatchingKeys == {k \in keys : RegexFullMatch(parts, k)}

\* p is a byte-prefix of some string the compiled pattern matches: p is
\* words of the first k parts followed by the beginning of a word of part k+1
PartialWord(g, r) ==
    CASE g.kind = "Choice" -> \E n \in DOMAIN g.allowed : StartsWith(g.allowed[n], r)
      [] g.kind = "Recursive" -> TRUE
      [] g.kind = "Any" /\ ~g.negated /\ g.raw = <<"*">> ->
            \A j \in DOMAIN r : r[j] # Delimiter
      [] OTHER -> FALSE

Viable(ps, p) ==
    \E k \in 0..Len(ps) :
        \E i \in MatchFrom(SubSeq(ps, 1, k), 1, p, {0}) :
            \/ i = Len(p)
            \/ k < Len(ps) /\ PartialWord(ps[k + 1], DropFirst(p, i))

\* C1: covering.  For a pattern without "**", once find_prefixes has
\* returned, every stored key the compiled pattern matches has one of the
\* returned prefixes as a byte-prefix.
C1_Covering ==
    (Planned /\ ~HasRecursive) =>
        \A k \in MatchingKeys : \E n \in DOMAIN prefixes : StartsWith(k, prefixes[n])

\* C2: a full run emits as Object results exactly the stored keys that the
\* anchored compiled regex of the pattern matches.
C2_ExactEmission ==
    pc = "done" => KeySet(received) = MatchingKeys

\* C3 (the returned result): every prefix find_prefixes returns is a
\* byte-prefix of at least one string the compiled pattern matches.
C3_PrefixesViable ==
    Planned => \A n \in DOMAIN prefixes : Viable(parts, prefixes[n])

\* The final segment of the pattern is a single "*"
FinalStar == parts # <<>> /\ parts[Len(parts)] = GlobAny(<<"*">>)

\* C4: for a pattern without "**" whose final segment is a single "*", run
\* over a bucket that is not empty, the run reports
\* every object directly under a planned prefix as an Object, every deeper
\* child directory as a Prefix placeholder, and nothing else.
C4_FinalStarReport ==
    (pc = "done" /\ FinalStar /\ ~HasRecursive /\ keys # {}) =>
        SeqToSet(received) =
            UNION {{PrefixResultObject(k) : k \in Contents(keys, prefixes[n])}
                   \cup {PrefixResultPrefix(c) : c \in CommonPrefixes(keys, prefixes[n])}
                   : n \in DOMAIN prefixes}

\* C5: under is_complete the enumeration makes exactly one HEAD per
\* planned prefix and no list call; otherwise exactly one list call per
\* planned prefix and no HEAD.
C5_Dispatch ==
    /\ \A t \in DOMAIN tasks :
          calls[t] = IF tasks[t] \in {"head", "list"} THEN [head |-> 0, list |-> 0]
                     ELSE IF is_complete THEN [head |-> 1, list |-> 0]
                     ELSE [head |-> 0, list |-> 1]
    /\ pc \in {"recv", "done"} => Len(tasks) = Len(prefixes)

C5_Witness ==
    /\ pc = "done"
    /\ is_complete
    /\ Len(prefixes) >= 2
    /\ \A t \in DOMAIN tasks : calls[t].head = 1

\* C6: is_complete holds exactly when no wildcard is left unexpanded (no
\* Recursive stopped the planning and the final part is not an Any the
\* planner did not scan), so that under is_complete every planned prefix
\* stands for at most one stored key.
C6_CompleteMeansExact ==
    Planned =>
        /\ is_complete <=> (part_i > Len(parts) /\ ~(parts[Len(parts)].kind = "Any"))
        /\ is_complete =>
              \A n \in DOMAIN prefixes :
                  Cardinality({k \in keys : StartsWith(k, prefixes[n])}) <= 1

\* C7: under is_complete a failed HEAD yields a Prefix result carrying the
\* prefix; every planned prefix is still probed once and yields one result,
\* and the run reaches its end.
C7_HeadMissIsPrefix ==
    /\ \A t \in DOMAIN tasks :
          (tasks[t] = "done" /\ is_complete /\ prefixes[t] \notin keys)
              => PrefixResultPrefix(prefixes[t]) \in Emitted
    /\ (pc = "done" /\ is_complete) =>
          /\ \A t \in DOMAIN prefixes : calls[t].head = 1
          /\ Len(received) = Len(prefixes)
          /\ \A t \in DOMAIN prefixes :
                \E n \in DOMAIN received : received[n].key = prefixes[t]

C7_Witness ==
    /\ pc = "done"
    /\ is_complete
    /\ \E t \in DOMAIN prefixes : prefixes[t] \notin keys
    /\ \E t \in DOMAIN prefixes : prefixes[t] \in keys

(***************************************************************************)
(* Claims about the download orchestrator                                  *)
(***************************************************************************)

RECURSIVE SumOver(_, _)
SumOver(S, f) ==
    IF S = {} THEN 0
    ELSE LET x == CHOOSE y \in S : TRUE IN f[x] + SumOver(S \ {x}, f)

\* The downloads that sent ObjectDownloaded
Reported == {t \in DOMAIN dls : dls[t].reported >= 1}

\* The body bytes download t wrote to its temp file
WrittenBytes == [t \in DOMAIN dls |->
                    Len(Flatten(SubSeq(ObjBody(dls[t].key), 1, dls[t].next - 1)))]

ObjectBytes == [t \in DOMAIN dls |-> ObjSize(dls[t].key)]

\* The ObjectDownloaded notifications sent so far
ObjectNotes ==
    Cardinality({i \in DOMAIN ntfctn : ntfctn[i].kind = "ObjectDownloaded"}) + Len(files)

\* C8: every object handed to the downloader gets at most one
\* ObjectDownloaded, only after its rename succeeded, and none when its
\* mkdir, GET, create, write, flush or rename failed.
C8_ObjectDownloadedOnce ==
    /\ \A t \in DOMAIN dls :
          /\ dls[t].reported <= 1
          /\ dls[t].reported = 1 => dls[t].renamed
          /\ dls[t].failed # "" => dls[t].reported = 0
    /\ ObjectNotes = Cardinality(Reported)

C8_Witness ==
    /\ dl_pc = "done"
    /\ \E t \in DOMAIN dls : dls[t].reported = 1
    /\ \E t \in DOMAIN dls : dls[t].failed = "rename"

\* C9: at the end of the run, for every ObjectDownloaded(p) that was
\* emitted, the file at p holds exactly the body of the object reported.
C9_FileHoldsBody ==
    dl_pc = "done" =>
        \A t \in Reported :
            /\ fs_exists(fs, DlPath(t))
            /\ fs_read(fs, DlPath(t)) = Flatten(ObjBody(dls[t].key))

\* C10 as claimed: when the notification channel closes, the sum of the
\* BytesDownloaded values equals the total size of the objects that got an
\* ObjectDownloaded.
C10_BytesOfSucceeded ==
    dl_pc \in {"done", "bail"} => total_bytes = SumOver(Reported, ObjectBytes)

\* C10 as amended: when the notification channel closes, the sum of the
\* BytesDownloaded values equals the body bytes written to temp files by
\* all downloads, failed ones included, and is at least the total size of
\* the objects that got an ObjectDownloaded.
C10_BytesWritten ==
    dl_pc \in {"done", "bail"} =>
        /\ total_bytes = SumOver(DOMAIN dls, WrittenBytes)
        /\ total_bytes >= SumOver(Reported, ObjectBytes)

C10_Witness ==
    /\ dl_pc = "done"
    /\ \E t \in DOMAIN dls : dls[t].failed # "" /\ dls[t].next > 1
    /\ \E t \in DOMAIN dls : dls[t].reported = 1 /\ ObjSize(dls[t].key) > 0


\* ------------------------------------------------------------------
\* The size pools of the downloader (download.rs, DlPools)
\* ------------------------------------------------------------------

\* The length of the mixed workloads, and the objects of the workloads of
\* huge objects only and of large objects only
MaxSizes == 2
MaxHuge == 6
MaxLarge == 11

\* The default of --max-parallelism
DefaultMaxParallelism == 10000

\* Object sizes on both sides of every threshold
SizeValues == {0, 199999, 200000, 999999, 1000000, 9999999, 10000000}

Workloads ==
    UNION {[1..n -> SizeValues] : n \in 1..MaxSizes}
        \cup {[i \in 1..MaxHuge |-> 10000000], [i \in 1..MaxLarge |-> 9999999]}

\* DlPools::new: the permits each pool asks for
PoolDefault == [two_hundred_kb |-> 500, one_mb |-> 50, ten_mb |-> 10, more |-> 5]

PoolSize_Unlimited(p, limit) == limit

\* DlPools::new: Semaphore::new(max_parallelism.min(default))
PoolSize(p, limit) == IF limit < PoolDefault[p] THEN limit ELSE PoolDefault[p]

PoolOf_Inclusive(size) ==
    IF size <= 200000 THEN "two_hundred_kb"
    ELSE IF size <= 1000000 THEN "one_mb"
    ELSE IF size <= 10000000 THEN "ten_mb"
    ELSE "more"

\* DlPools::download_object: the channel an object of this size is sent on
PoolOf(size) ==
    IF size < 200000 THEN "two_hundred_kb"
    ELSE IF size < 1000000 THEN "one_mb"
    ELSE IF size < 10000000 THEN "ten_mb"
    ELSE "more"

SpecPoolsInit ==
    /\ raw = <<>>
    /\ keys = {}
    /\ pc = "download"
    /\ stream = FALSE
    /\ EnumIdle
    /\ DlIdle
    /\ ModeIdle
    /\ FnIdle
    /\ max_parallelism \in (1..MaxParallelism) \cup {DefaultMaxParallelism}
    /\ sizes \in Workloads
    /\ handed = 0
    /\ queued = [p \in PoolNames |-> <<>>]
    /\ inflight = [p \in PoolNames |-> {}]
    /\ finished = [p \in PoolNames |-> {}]

\* run(): pools.download_object(dl.fresh(), obj) for the next object
PoolHand ==
    /\ handed < Len(sizes)
    /\ handed' = handed + 1
    /\ queued' = [queued EXCEPT ![PoolOf(sizes[handed + 1])] = Append(@, handed + 1)]
    /\ UNCHANGED <<max_parallelism, sizes, inflight, finished>>
    /\ UNCHANGED <<enum_vars, dl_vars, mode_vars, fn_vars>>

\* start_threadpool: the worker of pool p receives the next object of its
\* channel, acquires a permit of its semaphore and spawns the download
PoolStart(p) ==
    /\ queued[p] # <<>>
    /\ Cardinality(inflight[p]) < PoolSize(p, max_parallelism)
    /\ queued' = [queued EXCEPT ![p] = Tail(@)]
    /\ inflight' = [inflight EXCEPT ![p] = @ \cup {Head(queued[p])}]
    /\ UNCHANGED <<max_parallelism, sizes, handed, finished>>
    /\ UNCHANGED <<enum_vars, dl_vars, mode_vars, fn_vars>>

\* start_threadpool: a download returns, with or without an error, and its
\* permit is dropped
PoolFinish(p) ==
    /\ \E i \in inflight[p] :
          /\ inflight' = [inflight EXCEPT ![p] = @ \ {i}]
          /\ finished' = [finished EXCEPT ![p] = @ \cup {i}]
    /\ UNCHANGED <<max_parallelism, sizes, handed, queued>>
    /\ UNCHANGED <<enum_vars, dl_vars, mode_vars, fn_vars>>

SpecPoolsNext ==
    \/ PoolHand
    \/ \E p \in PoolNames : PoolStart(p)
    \/ \E p \in PoolNames : PoolFinish(p)

SpecPools == SpecPoolsInit /\ [][SpecPoolsNext]_vars

\* ------------------------------------------------------------------
\* Claims about errors and permits of the enumeration
\* ------------------------------------------------------------------

FailedTasks == {t \in DOMAIN tasks : tasks[t] = "failed"}

\* C13: when a list call of the enumeration fails, the run does not
\* finish successfully with the results of the other prefixes
C13_ListFailureAborts == FailedTasks # {} => pc # "done"

\* C14: a scan or an existence check that fails during planning makes
\* find_prefixes return the error: the run ends failed, the planning never
\* completes after it, and no listing or HEAD task is ever started
C14_PlanErrorStopsRun ==
    /\ err = "plan" => pc = "failed"
    /\ Planned => faults = Cardinality(FailedTasks)
    /\ pc = "failed" => tasks = <<>> /\ calls = <<>> /\ chan = <<>> /\ received = <<>>

C14_Witness ==
    /\ pc = "failed"
    /\ err = "plan"
    /\ Len(ck_tasks) >= 2
    /\ faults = 1
    /\ bucket_calls = 1

\* C15: a malformed pattern fails at parse time, before any request has
\* been sent to the store
C15_ParseBeforeRequests == err = "parse" => bucket_calls = 0

\* C19: at each fan-out point the tasks holding a permit never exceed
\* max_parallelism, and every task that ended, with or without an error,
\* has given its permit back
C19_PermitsBounded ==
    /\ ck_permits \in 0..max_parallelism
    /\ permits \in 0..max_parallelism
    /\ Cardinality(CkRunning) <= max_parallelism
    /\ Cardinality(Running) <= max_parallelism
    /\ pc = "check" => Cardinality(CkRunning) + ck_permits = max_parallelism
    /\ Planned => Cardinality(Running) + permits = max_parallelism

C19_Witness ==
    /\ pc = "check"
    /\ ck_permits = 0
    /\ Len(ck_tasks) < Len(ck_todo)
    /\ \E m \in DOMAIN ck_chan : ~ck_chan[m].ok

\* C20: the result batches queued between the enumeration tasks and
\* run() never exceed a capacity proportional to max_parallelism
C20_ChannelBounded == Len(chan) <= max_parallelism


\* ------------------------------------------------------------------
\* Claims about errors of the download mode
\* ------------------------------------------------------------------

DlEnded == dl_pc \in {"done", "bail"}

\* C11: a download that fails abandons only its own object: its permit is
\* released, every other object handed over is still downloaded and
\* reported, and the failure alone never makes the run end failed
C11_FailureIsLocal ==
    DlEnded =>
        /\ DlActive = {}
        /\ \A t \in DOMAIN dls : dls[t].failed = "" => dls[t].reported = 1
        /\ objs # <<>> => dl_pc = "done"

\* C12: the download mode ends with the error `No objects found matching
\* the pattern` exactly when the enumeration matched no object
C12_BailIffNoMatch == DlEnded => (dl_pc = "bail" <=> objs = <<>>)


\* ------------------------------------------------------------------
\* Claims about the size pools
\* ------------------------------------------------------------------

Smaller(a, b) == IF a < b THEN a ELSE b

\* The pools that hold object i: queued, in flight or finished
PoolsHolding(i) ==
    {p \in PoolNames : i \in SeqToSet(queued[p]) \cup inflight[p] \cup finished[p]}

InFlightTotal ==
    Cardinality(inflight.two_hundred_kb) + Cardinality(inflight.one_mb)
        + Cardinality(inflight.ten_mb) + Cardinality(inflight.more)

C17_OnePoolBySize ==
    \A i \in DOMAIN sizes :
        /\ i > handed => PoolsHolding(i) = {}
        /\ i <= handed =>
              /\ Cardinality(PoolsHolding(i)) = 1
              /\ "two_hundred_kb" \in PoolsHolding(i) <=> sizes[i] < 200000
              /\ "one_mb" \in PoolsHolding(i) <=> sizes[i] \in 200000..999999
              /\ "ten_mb" \in PoolsHolding(i) <=> sizes[i] \in 1000000..9999999
              /\ "more" \in PoolsHolding(i) <=> sizes[i] >= 10000000

C17_Witness ==
    \E i, j \in DOMAIN sizes :
        /\ sizes[i] = 999999
        /\ sizes[j] = 1000000
        /\ i \in finished.one_mb
        /\ j \in finished.ten_mb

\* C18: the store requests in flight, over all pools together, never
\* exceed max_parallelism
C18_TotalInFlight == InFlightTotal <= max_parallelism


\* ------------------------------------------------------------------
\* Claims about the output of the list mode
\* ------------------------------------------------------------------

\* How many times the result r occurs in the sequence q
Occurrences(q, r) == Cardinality({i \in DOMAIN q : q[i] = r})

\* C27: without --stream nothing is printed before the result channel has
\* closed, and then every received result is printed exactly once, in
\* ascending key order; with --stream each result is printed when it is
\* received and not again at the end
C27_ListOutput ==
    /\ ~stream =>
          /\ pc # "done" => printed = <<>>
          /\ pc = "done" =>
                /\ \A i, j \in DOMAIN printed :
                      i < j => ~StrLess(printed[j].key, printed[i].key)
                /\ \A r \in SeqToSet(received) \cup SeqToSet(printed) :
                      Occurrences(printed, r) = Occurrences(received, r)
    /\ stream => printed = received

C27_Witness ==
    /\ ~stream
    /\ pc = "done"
    /\ Len(printed) >= 2
    /\ printed # received


\* ------------------------------------------------------------------
\* Claims about the pure functions
\* ------------------------------------------------------------------

Applied(name) == call.name = name /\ out.done

\* The longest string every key of ks starts with
LongestCommonPrefix(ks) ==
    LET common == {k \in 0..Len(ks[1]) :
                      \A i \in DOMAIN ks : StartsWith(ks[i], SubSeq(ks[1], 1, k))}
    IN SubSeq(ks[1], 1, CHOOSE k \in common : \A j \in common : j <= k)

\* s cut back to end just after its last delimiter d
CutAfterLast(s, d) ==
    IF \E i \in DOMAIN s : s[i] = d
    THEN SubSeq(s, 1, CHOOSE i \in DOMAIN s : s[i] = d /\ \A j \in DOMAIN s : s[j] = d => j <= i)
    ELSE <<>>

\* C23: for the path mode shortest (delimiter `/`), extract_prefix_to_strip
\* returns the longest common prefix of the keys cut back to end just after
\* its last delimiter: empty for no key, the directory of a single key
C23_ShortestPrefix ==
    (Applied("extract_prefix_to_strip") /\ call.mode = "shortest") =>
        /\ out.val.ok
        /\ call.ks = <<>> => out.val.val = <<>>
        /\ call.ks # <<>> => out.val.val = CutAfterLast(LongestCommonPrefix(call.ks), "/")
        /\ Len(call.ks) = 1 => out.val.val = CutAfterLast(call.ks[1], "/")

\* The pattern before its first glob metacharacter
BeforeFirstGlob(r) ==
    LET plain == {k \in 0..Len(r) : \A i \in 1..k : r[i] \notin {"*", "?", "[", "{"}}
    IN SubSeq(r, 1, CHOOSE k \in plain : \A j \in plain : j <= k)

\* C24: for the path mode from-first-glob (delimiter `/`),
\* extract_prefix_to_strip returns the pattern cut before its first glob
\* metacharacter and cut back to end just after the last delimiter of that
\* part, so the result is empty or ends with the delimiter
C24_FromFirstGlobPrefix ==
    (Applied("extract_prefix_to_strip") /\ call.mode = "from-first-glob") =>
        /\ out.val.ok
        /\ out.val.val = CutAfterLast(BeforeFirstGlob(call.raw_pattern), "/")
        /\ out.val.val = <<>> \/ out.val.val[Len(out.val.val)] = "/"

\* C25 as stated: with flatten the path of an object relative to the
\* destination has no occurrence of the configured delimiter
C25_NoDelimiterInFlattened ==
    (Applied("local_path") /\ call.flat) =>
        \A i \in DOMAIN out.val.rel : out.val.rel[i] # call.delimiter

\* C25 amended: with flatten the path of an object relative to the
\* destination has no `/` (each one is replaced by `-`), whatever the
\* delimiter, so the file is created directly in the destination directory
C25_NoSlashInFlattened ==
    (Applied("local_path") /\ call.flat) =>
        /\ \A i \in DOMAIN out.val.rel : out.val.rel[i] # "/"
        /\ Len(out.val.rel) = Len(call.key)
        /\ \A i \in DOMAIN call.key :
              out.val.rel[i] = IF call.key[i] = "/" THEN "-" ELSE call.key[i]
        /\ out.val.path = base_path \o <<"/">> \o out.val.rel

C25_Witness ==
    /\ Applied("local_path")
    /\ call.flat
    /\ call.delimiter = ","
    /\ call.key = <<"a", "/", ",">>

\* C28: prefix_join(a, b) (delimiter `/`) is a followed by b with one
\* delimiter removed when a ends with it and b starts with it, and a
\* followed by b otherwise; the result never has two consecutive
\* delimiters straddling the join point
C28_PrefixJoin ==
    Applied("prefix_join") =>
        LET a == call.a
            b == call.b
        IN /\ out.val = IF a # <<>> /\ b # <<>> /\ a[Len(a)] = "/" /\ b[1] = "/"
                        THEN a \o Tail(b) ELSE a \o b
           /\ (a # <<>> /\ Len(out.val) > Len(a)) =>
                 ~(out.val[Len(a)] = "/" /\ out.val[Len(a) + 1] = "/")

\* The raw texts of the runs of adjacent choices of the parts q
RECURSIVE GroupRaws(_, _, _)
GroupRaws(q, acc, lastChoice) ==
    IF q = <<>> THEN acc
    ELSE IF lastChoice /\ Head(q).kind = "Choice"
    THEN GroupRaws(Tail(q), [acc EXCEPT ![Len(acc)] = @ \o Head(q).raw], TRUE)
    ELSE GroupRaws(Tail(q), Append(acc, Head(q).raw), Head(q).kind = "Choice")

\* C29: for every pattern that parses, the raw texts of the parsed segments
\* concatenated in order give back the pattern, a merged choice standing for
\* the raw texts of the adjacent choices it was merged from
C29_ParseRoundTrip ==
    (Applied("parse") /\ out.val.post.ok) =>
        LET pre == out.val.pre.parts
            post == out.val.post.parts
            groups == GroupRaws(pre, <<>>, FALSE)
        IN /\ Flatten(groups) = call.raw
           /\ Len(post) = Len(groups)
           /\ \A k \in DOMAIN post :
                 /\ post[k].kind # "Choice" => post[k].raw = groups[k]
                 /\ post[k].kind = "Choice" => StartsWith(groups[k], post[k].raw)

C29_Witness ==
    /\ Applied("parse")
    /\ call.raw = <<"a", "{", "a", ",", "b", "}", "*">>
    /\ Len(out.val.post.parts) = 2
    /\ Len(out.val.pre.parts) = 3

\* The characters a class member stands for
MemberChars(m) ==
    CASE m = <<"a">> -> <<"a">>
      [] m = <<"b">> -> <<"b">>
      [] m = <<"c">> -> <<"c">>
      [] m = <<"a", "-", "b">> -> <<"a", "b">>
      [] m = <<"a", "-", "c">> -> <<"a", "b", "c">>
      [] m = <<"b", "-", "c">> -> <<"b", "c">>

C26_PathsInjective ==
    /\ \A t, u \in DOMAIN dls : dls[t].key # dls[u].key => DlPath(t) # DlPath(u)
    /\ (/\ dl_pc = "done"
        /\ \A t \in DOMAIN dls : dls[t].failed = ""
        /\ \A i, j \in DOMAIN objs : i # j => objs[i] # objs[j])
       => Cardinality(fs) = Len(objs)

\* run() has returned, or was unwound by a panic
RunEnded == run_pc \in {"done", "bail", "panic"}

\* ntfctn_rx.recv() has returned None
NotificationsClosed == run_pc \in {"done", "bail"}

MatchedKeys ==
    [j \in DOMAIN jobs |-> jobs[j].key]
        \o [k \in DOMAIN objects_to_download |-> objects_to_download[k].key]

\* C22: under the path mode shortest no object is handed to a pool before
\* the enumeration channel has closed, and every download uses the prefix
\* computed from all matched keys; under the other path modes objects are
\* handed over when received, never buffered
C22_ShortestBuffers ==
    /\ path_mode = "shortest" =>
          /\ jobs # <<>> => run_pc # "loop"
          /\ \A j \in DOMAIN jobs :
                jobs[j].prefix_to_strip = CutAfterLast(LongestCommonPrefix(MatchedKeys), "/")
    /\ path_mode # "shortest" =>
          /\ objects_to_download = <<>>
          /\ run_pc # "dispatch"

C22_Witness ==
    /\ path_mode = "shortest"
    /\ run_pc = "done"
    /\ \E i, j \in DOMAIN jobs :
          /\ jobs[i].key = <<"a", "/", "a", "/", "b">>
          /\ jobs[j].key = <<"a", "/", "b">>
          /\ jobs[i].prefix_to_strip = <<"a", "/">>

(***************************************************************************)
(* Claims about the parser: errors, dashes, trailing delimiter, merging    *)
(***************************************************************************)

DashClassParsed(t) ==
    /\ out.val.post.ok
    /\ \E k \in DOMAIN out.val.pre.parts :
          LET g == out.val.pre.parts[k]
          IN /\ g.raw = t
             /\ IF g.kind = "Choice" THEN <<"-">> \in SeqToSet(g.allowed)
                ELSE g.negated /\ "-" \in SeqToSet(g.not)

C33_SyntheticAnyAtEnd ==
    (Applied("parse") /\ out.val.post.ok) =>
        LET post == out.val.post.parts
        IN /\ (post # <<>> /\ post[Len(post)] = GlobSyntheticAny)
                  <=> EndsWith(call.raw, <<Delimiter>>)
           /\ \A k \in 1..(Len(post) - 1) : post[k] # GlobSyntheticAny

\* The concatenation of a and b; when not plain, without the first character
\* of b when a ends with "/" and b starts with "/"
JoinAs(plain, a, b) ==
    IF ~plain /\ a # <<>> /\ b # <<>> /\ a[Len(a)] = "/" /\ b[1] = "/"
    THEN a \o Tail(b)
    ELSE a \o b

\* Each choice of l joined with each choice of r, left-major
Cross(plain, l, r) ==
    [k \in 1..(Len(l) * Len(r)) |->
        JoinAs(plain, l[((k - 1) \div Len(r)) + 1], r[((k - 1) % Len(r)) + 1])]

\* The choices of the runs of adjacent choices of the parts q, each run
\* joined from left to right; <<>> for a part that is no choice
RECURSIVE GroupChoices(_, _, _, _)
GroupChoices(plain, q, acc, lastChoice) ==
    IF q = <<>> THEN acc
    ELSE IF Head(q).kind # "Choice"
    THEN GroupChoices(plain, Tail(q), Append(acc, <<>>), FALSE)
    ELSE IF lastChoice
    THEN GroupChoices(plain, Tail(q),
             [acc EXCEPT ![Len(acc)] = Cross(plain, @, Head(q).allowed)], TRUE)
    ELSE GroupChoices(plain, Tail(q), Append(acc, Head(q).allowed), TRUE)

\* No two adjacent segments are choices, and the choices of each segment are
\* those of the run it was merged from
MergedAs(plain) ==
    LET post == out.val.post.parts
        groups == GroupChoices(plain, out.val.pre.parts, <<>>, FALSE)
    IN /\ \A k \in 1..(Len(post) - 1) : ~(is_choice(post[k]) /\ is_choice(post[k + 1]))
       /\ Len(post) = Len(groups)
       /\ \A k \in DOMAIN post : is_choice(post[k]) => post[k].allowed = groups[k]

\* C34 as stated: after parse no two adjacent segments are both choices, and
\* the choices of a merged segment are the plain concatenations of each left
\* choice with each right choice, left-major, no character added or removed
C34_MergeIsConcatenation == (Applied("parse") /\ out.val.post.ok) => MergedAs(TRUE)

\* C34 amended: the choices of a merged segment are each left choice joined
\* with each right choice, left-major, where a join drops the leading "/" of
\* the right choice when the left choice ends with "/"
C34_MergeIsPrefixJoin == (Applied("parse") /\ out.val.post.ok) => MergedAs(FALSE)

C34_Witness ==
    /\ Applied("parse")
    /\ call.raw = <<"{", "a", "/", ",", "b", "}", "{", "/", "a", ",", "b", "}">>
    /\ out.val.post.ok
    /\ Len(out.val.post.parts) = 1
    /\ out.val.post.parts[1].allowed =
          <<<<"a", "/", "a">>, <<"a", "/", "b">>, <<"b", "/", "a">>, <<"b", "b">>>>

(***************************************************************************)
(* Claims about the steps of the planner                                   *)
(***************************************************************************)

RecursiveAt == {i \in DOMAIN parts : parts[i].kind = "Recursive"}

\* The first Recursive segment of the pattern
FirstRecursive == CHOOSE i \in RecursiveAt : \A j \in RecursiveAt : i <= j

\* The working set after the first n segments of the segments q, over the
\* store ks
RECURSIVE WorkingSet(_, _, _)
WorkingSet(ks, q, n) ==
    IF n = 0 THEN <<<<>>>> ELSE PlanPart(ks, WorkingSet(ks, q, n - 1), q, n)

\* The planner stands at a Recursive segment
AtRecursive == pc = "plan" /\ part_i \in RecursiveAt

ScanDue ==
    /\ parts[part_i].kind = "Any"
    /\ part_i # Len(parts)
    /\ part_i = 1 \/ parts[part_i - 1].kind # "Any"

\* What the delimited scans of the working set return: the child
\* directories and the keys directly under its prefixes
ScanUnion ==
    UNION {CommonPrefixes(keys, prefixes[n]) \cup Contents(keys, prefixes[n]) :
              n \in DOMAIN prefixes}

\* C36: the planner scans for a segment exactly when the segment is an Any
\* segment, not the final one and not after an Any segment; then it makes
\* one scan for each prefix of the working set and the working set becomes
\* the union of the results (less what a negated class filters out); no
\* other step of the run makes a scan
C36_ScanOnlyForAny ==
    /\ [][part_i' = part_i + 1 =>
             IF pc = "plan" /\ ScanDue
             THEN /\ scan_calls' = scan_calls \o prefixes
                  /\ SeqToSet(prefixes') \subseteq ScanUnion
                  /\ ~is_negated(parts[part_i]) => SeqToSet(prefixes') = ScanUnion
             ELSE scan_calls' = scan_calls]_vars
    /\ [][(part_i' = part_i /\ scan_calls' # scan_calls) =>
             pc = "plan" /\ ScanDue /\ pc' = "failed"]_vars

C36_Witness ==
    /\ pc = "done"
    /\ raw = <<"[", "!", "a", "]", "*", "/", "b">>
    /\ scan_calls = <<<<>>>>
    /\ prefixes = <<<<"b", "/", "b">>>>

\* The planner is about to process a negated class
AtNegated ==
    /\ pc = "plan"
    /\ part_i \in DOMAIN parts
    /\ parts[part_i].kind = "Any"
    /\ parts[part_i].negated

\* C37: when the planner has processed a negated class, every prefix of the
\* working set is matched from its start by the regex of the segments up to
\* and including the class, and the filter only removed prefixes from the
\* set it was given (the results of the scans of that segment when scans
\* were made, the working set before otherwise)
C37_NegatedFilterOnlyRemoves ==
    [][(AtNegated /\ part_i' = part_i + 1) =>
          /\ \A n \in DOMAIN prefixes' :
                RegexIsMatch(SubSeq(parts, 1, part_i), prefixes'[n])
          /\ SeqToSet(prefixes') \subseteq
                (IF ScanDue THEN ScanUnion ELSE SeqToSet(prefixes))
          /\ ~ScanDue => Len(prefixes') <= Len(prefixes)]_vars

C37_Witness ==
    /\ pc = "plan"
    /\ part_i = 2
    /\ parts[1].negated
    /\ keys = {<<"a", "/", "b">>, <<"b", "/", "b">>}
    /\ scan_calls = <<<<>>>>
    /\ prefixes = <<<<"b", "/">>>>

(***************************************************************************)
(* Claims about the ids of the downloaders                                 *)
(***************************************************************************)

\* Final paths with the same stem that differ only in the extension
SameStemPaths ==
    {<<"d", "/", "c", ".", "x">>, <<"d", "/", "c", ".", "y">>, <<"d", "/", "c">>}

TimesEmitted(k) ==
    Cardinality({n \in DOMAIN received :
                    received[n].kind = "Object" /\ received[n].key = k})

\* C39: every stored key is emitted as an Object at most once in a run,
\* also when one planned prefix is a prefix of another
C39_KeyEmittedOnce == \A k \in keys : TimesEmitted(k) <= 1

\* The keys of the objects run() has received
ObjectKeys ==
    LET objects == SelectSeq(received, LAMBDA r : r.kind = "Object")
    IN [k \in DOMAIN objects |-> objects[k].key]

\* The objects a download run in this path mode has handed to the pools
\* when the enumeration has delivered `received`: each on its receipt with
\* the prefix of the pattern, and under shortest all of them after the
\* channel has closed, with the prefix of the received keys
HandedOver(mode) ==
    IF ~Buffers(mode)
    THEN Dispatched(received, extract_prefix_to_strip(raw, mode, <<>>).val)
    ELSE LET shortest == extract_prefix_to_strip(raw, mode, ObjectKeys)
         IN IF pc = "done" /\ shortest.ok
            THEN Dispatched(received, shortest.val)
            ELSE <<>>

\* C40: in every path mode, for every pattern and bucket, the key of every
\* object handed to a download worker starts with the prefix_to_strip of
\* its downloader
C40_KeyStartsWithPrefix ==
    \A mode \in PathModes :
        \A j \in DOMAIN HandedOver(mode) :
            StartsWith(HandedOver(mode)[j].key, HandedOver(mode)[j].prefix_to_strip)

\* Two objects below a/ were found for a pattern that starts with a/: both
\* the prefix of the pattern and the prefix of the keys are a/
C40_Witness ==
    /\ pc = "done"
    /\ Len(ObjectKeys) = 2
    /\ \A mode \in PathModes \ {"absolute"} :
          /\ Len(HandedOver(mode)) = 2
          /\ HandedOver(mode)[1].prefix_to_strip = <<"a", "/">>

====
